---- MODULE Spec2Model ----
(***************************************************************************)
(* A model of the schema-to-type compiler of lif-core:                     *)
(*   components/lif/dynamic_models/core.py  (make_enum, build_dynamic_model)*)
(*   components/lif/string_utils/core.py    (to_pascal_case)               *)
(*                                                                         *)
(* Python strings that the code takes apart (paths, segment names, type    *)
(* names, map keys, enum labels) are sequences of one-character strings,   *)
(* so that split, join, capitalize, endswith and sorted are computed and   *)
(* not assumed.  Strings that the code only compares as a whole (attribute *)
(* names, dataType tokens, descriptions) are TLA+ strings.                 *)
(***************************************************************************)
EXTENDS Integers, Sequences, FiniteSets, TLC

VARIABLES
    schema_fields,     \* build_dynamic_model: the schema_fields argument
    attribute_flag,    \* build_dynamic_model: the attribute_flag argument
    allow_extra,       \* build_dynamic_model: the allow_extra argument
    model_suffix,      \* build_dynamic_model: the model_suffix argument
    all_optional,      \* build_dynamic_model: the all_optional argument
    pc,                \* "call" before the invocation, then "returned" or "raised"
    models,            \* the returned mapping: identity key -> class object
    classes,           \* the class objects created by the invocation, by object reference
    ENUM_CLASS_CACHE,  \* the process-wide enum cache: cache key -> enum class object
    next_id,           \* the identity given to the next enum class object created
    calls,             \* the make_enum calls made so far, with the object each returned
    threads,           \* the threads inside make_enum: where each stands, and its locals
    root_type,         \* create_app: the configured root, passed as root_node to build_schema
    schema,            \* what build_schema returned, and what its resolvers close over
    request,           \* the resolver invocation in progress, if any
    backend_calls,     \* the Backend calls made since the latest invocation began
    last,              \* how the latest finished invocation ended
    module_globals,    \* schema_factory's module globals RootType, FilterInput, MutationInput
    build_count,       \* the build_schema calls made so far
    type_registry,     \* the TypeRegistry singleton: its three dicts
    registry_log,      \* the initialize_types calls completed so far, and whether each built
    args,              \* the arguments of the function applied (selection, schema or value)
    returned           \* what the function returned

vars == <<schema_fields, attribute_flag, allow_extra, model_suffix, all_optional,
          pc, models, classes, ENUM_CLASS_CACHE, next_id, calls, threads,
          root_type, schema, request, backend_calls, last, module_globals, build_count,
          type_registry, registry_log, args, returned>>

compilerVars == <<schema_fields, attribute_flag, allow_extra, model_suffix, all_optional,
                  pc, models, classes>>

enumVars == <<ENUM_CLASS_CACHE, next_id, calls, threads>>

graphqlVars == <<root_type, schema, request, backend_calls, last, module_globals, build_count>>

registryVars == <<type_registry, registry_log>>

functionVars == <<args, returned>>

-----------------------------------------------------------------------------
(* Characters and the str methods the code uses.                           *)

LowerChars == <<"a","b","c","d","e","f","g","h","i","j","k","l","m",
                "n","o","p","q","r","s","t","u","v","w","x","y","z">>
UpperChars == <<"A","B","C","D","E","F","G","H","I","J","K","L","M",
                "N","O","P","Q","R","S","T","U","V","W","X","Y","Z">>
DigitChars == <<"0","1","2","3","4","5","6","7","8","9">>

\* The characters in code point order, for the comparisons sorted() makes.
CodePoints == <<" ", "-", ".">> \o DigitChars \o <<":">> \o UpperChars \o <<"_">> \o LowerChars

IndexOf(c, s) == IF \E i \in 1..Len(s) : s[i] = c
                 THEN CHOOSE i \in 1..Len(s) : s[i] = c
                 ELSE 0

IsLowerCh(c) == IndexOf(c, LowerChars) > 0
IsUpperCh(c) == IndexOf(c, UpperChars) > 0
IsDigitCh(c) == IndexOf(c, DigitChars) > 0
IsSpaceCh(c) == c = " "
\* \w of the re module
IsWordCh(c) == IsLowerCh(c) \/ IsUpperCh(c) \/ IsDigitCh(c) \/ c = "_"

UpperCh(c) == IF IsLowerCh(c) THEN UpperChars[IndexOf(c, LowerChars)] ELSE c
LowerCh(c) == IF IsUpperCh(c) THEN LowerChars[IndexOf(c, UpperChars)] ELSE c

str_upper(s) == [i \in 1..Len(s) |-> UpperCh(s[i])]
str_lower(s) == [i \in 1..Len(s) |-> LowerCh(s[i])]

\* str.capitalize(): the first character upper-cased, the rest lower-cased
str_capitalize(s) == [i \in 1..Len(s) |-> IF i = 1 THEN UpperCh(s[i]) ELSE LowerCh(s[i])]

\* str.isupper(): at least one cased character and no lower-case one
str_isupper(s) == /\ \E i \in 1..Len(s) : IsUpperCh(s[i])
                  /\ \A i \in 1..Len(s) : ~IsLowerCh(s[i])

str_endswith(s, suffix) ==
    /\ Len(suffix) <= Len(s)
    /\ SubSeq(s, Len(s) - Len(suffix) + 1, Len(s)) = suffix

RECURSIVE str_strip_left(_)
str_strip_left(s) == IF s # <<>> /\ IsSpaceCh(Head(s)) THEN str_strip_left(Tail(s)) ELSE s

RECURSIVE str_strip_right(_)
str_strip_right(s) == IF s # <<>> /\ IsSpaceCh(s[Len(s)])
                      THEN str_strip_right(SubSeq(s, 1, Len(s) - 1))
                      ELSE s

str_strip(s) == str_strip_right(str_strip_left(s))

\* sep.join(parts)
RECURSIVE str_join(_, _)
str_join(sep, parts) ==
    IF parts = <<>> THEN <<>>
    ELSE IF Len(parts) = 1 THEN parts[1]
    ELSE parts[1] \o sep \o str_join(sep, Tail(parts))

\* s.split(c) for a one-character separator: always at least one part
RECURSIVE SplitFrom(_, _, _)
SplitFrom(s, c, cur) ==
    IF s = <<>> THEN <<cur>>
    ELSE IF Head(s) = c THEN <<cur>> \o SplitFrom(Tail(s), c, <<>>)
    ELSE SplitFrom(Tail(s), c, Append(cur, Head(s)))

str_split(s, c) == SplitFrom(s, c, <<>>)

\* a < b in the order Python gives strings (code point by code point)
RECURSIVE str_less(_, _)
str_less(a, b) ==
    IF b = <<>> THEN FALSE
    ELSE IF a = <<>> THEN TRUE
    ELSE IF Head(a) = Head(b) THEN str_less(Tail(a), Tail(b))
    ELSE IndexOf(Head(a), CodePoints) < IndexOf(Head(b), CodePoints)

\* sorted(values): insertion into an ordered list (stable)
RECURSIVE SortedInsert(_, _)
SortedInsert(v, sorted) ==
    IF sorted = <<>> THEN <<v>>
    ELSE IF str_less(v, Head(sorted)) THEN <<v>> \o sorted
    ELSE <<Head(sorted)>> \o SortedInsert(v, Tail(sorted))

RECURSIVE py_sorted(_)
py_sorted(values) ==
    IF values = <<>> THEN <<>>
    ELSE SortedInsert(values[Len(values)], py_sorted(SubSeq(values, 1, Len(values) - 1)))

-----------------------------------------------------------------------------
(* to_pascal_case (string_utils/core.py).                                  *)

\* the end of the run of lower-case letters that starts at position i
RECURSIVE LowerRunEnd(_, _)
LowerRunEnd(s, i) == IF i + 1 <= Len(s) /\ IsLowerCh(s[i + 1]) THEN LowerRunEnd(s, i + 1) ELSE i

\* re.sub(r"(.)([A-Z][a-z]+)", r"\1_\2", s), scanning from position i
RECURSIVE SubCaseBoundary1(_, _)
SubCaseBoundary1(s, i) ==
    IF i > Len(s) THEN <<>>
    ELSE IF i + 2 <= Len(s) /\ IsUpperCh(s[i + 1]) /\ IsLowerCh(s[i + 2])
         THEN LET e == LowerRunEnd(s, i + 2)
              IN  <<s[i], "_">> \o SubSeq(s, i + 1, e) \o SubCaseBoundary1(s, e + 1)
         ELSE <<s[i]>> \o SubCaseBoundary1(s, i + 1)

\* re.sub(r"([a-z0-9])([A-Z])", r"\1_\2", s), scanning from position i
RECURSIVE SubCaseBoundary2(_, _)
SubCaseBoundary2(s, i) ==
    IF i > Len(s) THEN <<>>
    ELSE IF i + 1 <= Len(s) /\ (IsLowerCh(s[i]) \/ IsDigitCh(s[i])) /\ IsUpperCh(s[i + 1])
         THEN <<s[i], "_", s[i + 1]>> \o SubCaseBoundary2(s, i + 2)
         ELSE <<s[i]>> \o SubCaseBoundary2(s, i + 1)

IsSeparatorCh(c) == c = "_" \/ c = "-" \/ IsSpaceCh(c)

\* re.split(r"[_\-\s]+", s) with the empty words dropped
RECURSIVE SplitWords(_, _)
SplitWords(s, cur) ==
    IF s = <<>> THEN (IF cur = <<>> THEN <<>> ELSE <<cur>>)
    ELSE IF IsSeparatorCh(Head(s))
         THEN (IF cur = <<>> THEN <<>> ELSE <<cur>>) \o SplitWords(Tail(s), <<>>)
         ELSE SplitWords(Tail(s), Append(cur, Head(s)))

RECURSIVE PascalWords(_)
PascalWords(words) ==
    IF words = <<>> THEN <<>>
    ELSE (IF str_isupper(Head(words)) THEN Head(words) ELSE str_capitalize(Head(words)))
         \o PascalWords(Tail(words))

\* to_pascal_case(part) for one part
to_pascal_case(part) ==
    IF part = <<>> THEN <<>>
    ELSE PascalWords(SplitWords(SubCaseBoundary2(SubCaseBoundary1(str_strip(part), 1), 1), <<>>))

-----------------------------------------------------------------------------
(* Python values.                                                          *)

\* None, where the code passes a whole string or None (attribute_flag)
None == "None"

\* the description of a field that has none
NoDescription == "<no description>"

\* the empty dict
EmptyDict == <<>>

\* dict.get(key, default)
Get(d, key, default) == IF key \in DOMAIN d THEN d[key] ELSE default

\* d[key] = value
Put(d, key, value) == (key :> value) @@ d

\* the keys of a dict in iteration order after d[key] = value: a new key
\* goes last, a key already there keeps its place
PutKey(keys, key) ==
    IF \E n \in 1..Len(keys) : keys[n] = key THEN keys ELSE Append(keys, key)

\* typing: a type is a base (a scalar, an enum class or a model class), the
\* object it refers to (the enum's cache key or the model's path) and the
\* generic wrappers around it, outermost first.
ScalarType(name) == [wrappers |-> <<>>, base |-> name, ref |-> <<>>]
EnumType(cache_key) == [wrappers |-> <<>>, base |-> "enum", ref |-> <<cache_key>>]
ModelType(ref) == [wrappers |-> <<>>, base |-> "model", ref |-> ref]

\* List[t]
ListOf(t) == [t EXCEPT !.wrappers = <<"List">> \o @]

\* Optional[t]: Optional[Optional[t]] is Optional[t]
OptionalOf(t) == IF t.wrappers # <<>> /\ Head(t.wrappers) = "Optional"
                 THEN t
                 ELSE [t EXCEPT !.wrappers = <<"Optional">> \o @]

-----------------------------------------------------------------------------
(* dynamic_models/core.py: constants and helpers.                          *)

DATATYPE_MAP ==
    [k \in {"xsd:string", "xsd:decimal", "xsd:integer", "xsd:boolean",
            "xsd:date", "xsd:dateTime", "xsd:datetime", "xsd:anyURI"} |->
        CASE k = "xsd:string" -> "str"
          [] k = "xsd:decimal" -> "float"
          [] k = "xsd:integer" -> "int"
          [] k = "xsd:boolean" -> "bool"
          [] k = "xsd:date" -> "date"
          [] k = "xsd:dateTime" -> "datetime"
          [] k = "xsd:datetime" -> "datetime"
          [] k = "xsd:anyURI" -> "str"]

_TRUTHY == { <<"y","e","s">>, <<"t","r","u","e">>, <<"1">> }

_is_yes(value) == str_lower(str_strip(value)) \in _TRUTHY

\* re.sub(r"\W|^(?=\d)", "_", label.upper())
_to_enum_member(label) ==
    LET up == str_upper(label)
        body == [i \in 1..Len(up) |-> IF IsWordCh(up[i]) THEN up[i] ELSE "_"]
    IN  IF up # <<>> /\ IsDigitCh(up[1]) THEN <<"_">> \o body ELSE body

\* {_to_enum_member(v): v for v in values}: a member per distinct member name,
\* in the order of first appearance, holding the last value given under it
RECURSIVE EnumMembers(_, _)
EnumMembers(values, acc) ==
    IF values = <<>> THEN acc
    ELSE LET m == [name |-> _to_enum_member(Head(values)), value |-> Head(values)]
             at == {i \in 1..Len(acc) : acc[i].name = m.name}
         IN  IF at = {}
             THEN EnumMembers(Tail(values), Append(acc, m))
             ELSE EnumMembers(Tail(values), [acc EXCEPT ![CHOOSE i \in at : TRUE] = m])

\* f"{name}_{'_'.join(map(str, sorted(values)))}"
UnsortedCacheKey(name, values) == name \o <<"_">> \o str_join(<<"_">>, values)

CacheKey(name, values) == name \o <<"_">> \o str_join(<<"_">>, py_sorted(values))

\* make_enum on the heap h = [cache, next_id, calls]: the heap after the call
\* and the object returned
make_enum(h, name, values) ==
    LET cache_key == CacheKey(name, values)
        hit == cache_key \in DOMAIN h.cache
        enum_cls == [id |-> h.next_id, name |-> name, members |-> EnumMembers(values, <<>>)]
        ret == IF hit THEN h.cache[cache_key] ELSE enum_cls
    IN  [cache |-> IF hit THEN h.cache ELSE Put(h.cache, cache_key, enum_cls),
         next_id |-> IF hit THEN h.next_id ELSE h.next_id + 1,
         calls |-> Append(h.calls, [name |-> name, values |-> values, id |-> ret.id]),
         key |-> cache_key,
         ret |-> ret]

-----------------------------------------------------------------------------
(* build_dynamic_model: the tree rebuilt from the dotted paths.            *)
(*                                                                         *)
(* cx holds what the closures of build_dynamic_model share: the arguments, *)
(* the participating fields in input order (sel), their split paths (parts)*)
(* and root_name.  The nested dict `tree` is the set of the prefixes of    *)
(* cx.parts; its keys iterate in insertion order.                          *)

\* a variant that takes every field whatever its flag
ParticipatesAlways(sf, flag) == TRUE

\* `if attribute_flag and not sf.attributes.get(attribute_flag, False): continue`
Participates(sf, flag) ==
    ~((flag # None /\ flag # "") /\ ~Get(sf.attributes, flag, FALSE))

RECURSIVE Selected(_, _)
Selected(fields, flag) ==
    IF fields = <<>> THEN <<>>
    ELSE (IF Participates(Head(fields), flag) THEN <<Head(fields)>> ELSE <<>>)
         \o Selected(Tail(fields), flag)

IsPrefix(p, q) == Len(p) <= Len(q) /\ SubSeq(q, 1, Len(p)) = p

\* list(subtree.keys()) for the subtree at `path`, scanning the fields from the i-th
RECURSIVE ChildKeysFrom(_, _, _, _)
ChildKeysFrom(cx, path, i, acc) ==
    IF i > Len(cx.parts) THEN acc
    ELSE LET p == cx.parts[i]
         IN  IF /\ Len(p) > Len(path)
                /\ IsPrefix(path, p)
                /\ \A j \in 1..Len(acc) : acc[j] # p[Len(path) + 1]
             THEN ChildKeysFrom(cx, path, i + 1, Append(acc, p[Len(path) + 1]))
             ELSE ChildKeysFrom(cx, path, i + 1, acc)

ChildKeys(cx, path) == ChildKeysFrom(cx, path, 1, <<>>)

\* leaf_by_path: `leaf_by_path[tuple(parts)] = sf` in input order, so the
\* last participating field of a path is the one kept
InLeafByPath(cx, path) == \E i \in 1..Len(cx.parts) : cx.parts[i] = path

LastAt(cx, path) ==
    CHOOSE i \in 1..Len(cx.parts) :
        /\ cx.parts[i] = path
        /\ \A j \in 1..Len(cx.parts) : cx.parts[j] = path => j <= i

leaf_by_path(cx, path) == cx.sel[LastAt(cx, path)]

\* strip_root
strip_root(cx, parts) ==
    IF parts # <<>> /\ str_lower(parts[1]) = str_lower(cx.root_name)
    THEN Tail(parts)
    ELSE parts

-----------------------------------------------------------------------------
(* build_dynamic_model: _field_type, _build_model, _wrap_root.             *)
(*                                                                         *)
(* h is the heap the invocation works on: the enum cache (cache, next_id,  *)
(* calls), the class objects created so far (classes, by the path of the   *)
(* node each was built for) and the dict `models` (key -> class object),   *)
(* with its keys in iteration order (keys).                                *)

\* the object reference of the wrapper class: the empty path, above the root
WrapperRef == <<>>

\* "_wrapper"
WrapperMarker == <<"_","w","r","a","p","p","e","r">>

\* a variant that never wraps
ArrayWrapNever(sf, base) == base

\* the array wrapping of _field_type
ArrayWrap(sf, base) ==
    IF _is_yes(Get(sf.attributes, "array", <<"N","o">>)) THEN ListOf(base) ELSE base

\* the optional wrapping of _field_type and of the annotations
OptionalWrap(cx, t) == IF cx.all_optional THEN OptionalOf(t) ELSE t

\* _field_type(sf, name): the type, and the heap after make_enum
_field_type(cx, sf, name, h) ==
    LET is_enum == "enum" \in DOMAIN sf.attributes
        e == make_enum(h, str_capitalize(name), sf.attributes["enum"])
        base == IF is_enum
                THEN EnumType(e.key)
                ELSE ScalarType(Get(DATATYPE_MAP, Get(sf.attributes, "dataType", "xsd:string"), "str"))
    IN  [type |-> OptionalWrap(cx, ArrayWrap(sf, base)),
         h |-> IF is_enum
               THEN [h EXCEPT !.cache = e.cache, !.next_id = e.next_id, !.calls = e.calls]
               ELSE h]

\* a variant that gives every field a default
FieldRequiredNever(cx) == FALSE

\* whether a field may be left out: `defaults[key] = None` only under all_optional
FieldRequired(cx) == ~cx.all_optional

\* a variant that forbids always
ExtraPolicyForbid(cx) == "forbid"

\* ConfigDict(extra="allow" if allow_extra else "forbid")
ExtraPolicy(cx) == IF cx.allow_extra THEN "allow" ELSE "forbid"

\* the class name _build_model gives the node at `path`
ClassName(cx, path) ==
    LET stripped == str_join(<<>>, strip_root(cx, path))
        class_name == IF strip_root(cx, path) # <<>>
                      THEN to_pascal_case(stripped)
                      ELSE to_pascal_case(cx.root_name)
    IN  IF cx.model_suffix # <<>> /\ ~str_endswith(class_name, cx.model_suffix)
        THEN class_name \o cx.model_suffix
        ELSE class_name

\* (sf.attributes.get("uniqueName") if sf else None) or ".".join(stripped) or class_name
UniqueName(cx, path) ==
    LET given == IF InLeafByPath(cx, path)
                 THEN Get(leaf_by_path(cx, path).attributes, "uniqueName", <<>>)
                 ELSE <<>>
        dotted == str_join(<<".">>, strip_root(cx, path))
    IN  IF given # <<>> THEN given
        ELSE IF dotted # <<>> THEN dotted
        ELSE ClassName(cx, path)

\* a variant that ignores the array marker of the branch
BranchIsArrayNever(cx, child_path) == FALSE

\* is_array of a branch
BranchIsArray(cx, child_path) ==
    IF InLeafByPath(cx, child_path)
    THEN _is_yes(Get(leaf_by_path(cx, child_path).attributes, "array", <<"N","o">>))
    ELSE FALSE

\* the end of _build_model, after the loop: `if not annotations: return None`,
\* else create_model(...) and `models[unique_name] = cls`
CreateModel(cx, path, body) ==
    IF body.annotations = <<>>
    THEN [built |-> FALSE, h |-> body.h]
    ELSE [built |-> TRUE,
          h |-> [body.h EXCEPT
                   !.classes = Put(@, path, [name |-> ClassName(cx, path),
                                             fields |-> body.annotations,
                                             extra |-> ExtraPolicy(cx)]),
                   !.models = Put(@, UniqueName(cx, path), path),
                   !.keys = PutKey(@, UniqueName(cx, path))]]

\* the annotation of a leaf
LeafField(cx, key, leaf_sf, ft) ==
    [name |-> key,
     type |-> OptionalWrap(cx, ft.type),
     required |-> FieldRequired(cx),
     description |-> leaf_sf.description]

\* the annotation of a branch
BranchField(cx, key, child_path) ==
    [name |-> key,
     type |-> OptionalWrap(cx, IF BranchIsArray(cx, child_path)
                               THEN ListOf(ModelType(child_path))
                               ELSE ModelType(child_path)),
     required |-> FieldRequired(cx),
     description |-> NoDescription]

\* `if nested_model is None: continue`, else the annotation of the branch
AfterNested(cx, key, child_path, annotations, r) ==
    [annotations |-> IF r.built
                     THEN Append(annotations, BranchField(cx, key, child_path))
                     ELSE annotations,
     h |-> r.h]

\* a leaf of the loop: `sf = leaf_by_path.get(...)`, `if not sf: continue`
AfterLeaf(cx, key, annotations, leaf_sf, ft) ==
    [annotations |-> Append(annotations, LeafField(cx, key, leaf_sf, ft)),
     h |-> ft.h]

RECURSIVE _build_model(_, _, _, _)
RECURSIVE BuildFields(_, _, _, _)

\* the loop `for key, child in subtree.items()` of _build_model, from the
\* keys left to visit: acc holds the annotations and the heap so far
BuildFields(cx, path, keys, acc) ==
    IF keys = <<>> THEN acc
    ELSE IF ChildKeys(cx, Append(path, Head(keys))) # <<>>
    THEN \* branch: nested model
         BuildFields(cx, path, Tail(keys),
             AfterNested(cx, Head(keys), Append(path, Head(keys)), acc.annotations,
                 _build_model(cx, str_capitalize(Head(keys)),
                              Append(path, Head(keys)), acc.h)))
    ELSE IF InLeafByPath(cx, Append(path, Head(keys)))
    THEN \* leaf
         BuildFields(cx, path, Tail(keys),
             AfterLeaf(cx, Head(keys), acc.annotations,
                 leaf_by_path(cx, Append(path, Head(keys))),
                 _field_type(cx, leaf_by_path(cx, Append(path, Head(keys))),
                             to_pascal_case(Head(keys)), acc.h)))
    ELSE BuildFields(cx, path, Tail(keys), acc)

\* _build_model(name, subtree, path): whether a class was built (None
\* otherwise) and the heap after the call; the class is h.classes[path]
_build_model(cx, name, path, h) ==
    CreateModel(cx, path,
        BuildFields(cx, path, ChildKeys(cx, path), [annotations |-> <<>>, h |-> h]))

\* the class name of the wrapper
WrapperName(cx, root_name) == str_capitalize(root_name) \o cx.model_suffix

\* a variant that never wraps the inner model in a list
WrapperFieldTypeBare(inner, is_array) == ModelType(inner)

\* `field_type = List[inner] if is_array else inner`
WrapperFieldType(inner, is_array) ==
    IF is_array THEN ListOf(ModelType(inner)) ELSE ModelType(inner)

\* _wrap_root(root_name, inner, is_array)
_wrap_root(cx, root_name, inner, is_array) ==
    [name |-> WrapperName(cx, root_name),
     fields |-> << [name |-> root_name,
                    type |-> WrapperFieldType(inner, is_array),
                    required |-> FieldRequired(cx),
                    description |-> NoDescription] >>,
     extra |-> ExtraPolicy(cx)]

\* a variant that never checks the roots
NoCommonRootUnchecked(tree) == FALSE

\* `if len(tree) != 1: raise ValueError(...)`, for the top-level keys of a non-empty tree
NoCommonRoot(tree) == Len(tree) # 1

\* what the invocation closes over: the fields that participate, their
\* json_path split on ".", the policy, and root_name once it is known
Context(sel, flag, extra, suffix, optional) ==
    [sel |-> sel,
     parts |-> [i \in 1..Len(sel) |-> str_split(sel[i].json_path, ".")],
     attribute_flag |-> flag, allow_extra |-> extra,
     model_suffix |-> suffix, all_optional |-> optional,
     root_name |-> <<>>]

\* a result that carries no models: `return {}` or the ValueError
NoModels(outcome, h) ==
    [outcome |-> outcome, models |-> EmptyDict, keys |-> <<>>, classes |-> EmptyDict,
     cache |-> h.cache, next_id |-> h.next_id, calls |-> h.calls]

\* `if inner_model is None: return {}`, else the root under root_name and
\* the wrapper under root_name + "_wrapper"
RootAndWrapper(cx, r) ==
    IF ~r.built THEN NoModels("returned", r.h)
    ELSE [outcome |-> "returned",
          models |-> Put(Put(r.h.models, cx.root_name, <<cx.root_name>>),
                         cx.root_name \o WrapperMarker, WrapperRef),
          keys |-> PutKey(PutKey(r.h.keys, cx.root_name), cx.root_name \o WrapperMarker),
          classes |-> Put(r.h.classes, WrapperRef,
                          _wrap_root(cx, cx.root_name, <<cx.root_name>>, TRUE)),
          cache |-> r.h.cache, next_id |-> r.h.next_id, calls |-> r.h.calls]

\* `root_name, subtree = next(iter(tree.items()))` and the build below it
BuildRoot(cx, e) ==
    RootAndWrapper(cx,
        _build_model(cx, str_capitalize(cx.root_name), <<cx.root_name>>,
                     [cache |-> e.cache, next_id |-> e.next_id, calls |-> e.calls,
                      classes |-> EmptyDict, models |-> EmptyDict, keys |-> <<>>]))

\* the checks on the tree: empty, or more than one top-level key
BuildTree(cx0, tree, e) ==
    IF tree = <<>> THEN NoModels("returned", e)
    ELSE IF NoCommonRoot(tree) THEN NoModels("raised", e)
    ELSE BuildRoot([cx0 EXCEPT !.root_name = tree[1]], e)

\* the tree of the context, by its top-level keys
BuildContext(cx0, e) == BuildTree(cx0, ChildKeys(cx0, <<>>), e)

\* build_dynamic_model on the enum heap e = [cache, next_id, calls]:
\* the outcome ("returned" or "raised"), the mapping returned, the class
\* objects it refers to and the enum heap after the call
build_dynamic_model(fields, flag, extra, suffix, optional, e) ==
    BuildContext(Context(Selected(fields, flag), flag, extra, suffix, optional), e)

-----------------------------------------------------------------------------
(* lif.graphql.utils: the names of the projected types.                    *)

IsLetterCh(c) == IsLowerCh(c) \/ IsUpperCh(c)

\* s.replace("-", " ").replace("_", " ")
DashesToSpaces(s) == [i \in 1..Len(s) |-> IF s[i] = "-" \/ s[i] = "_" THEN " " ELSE s[i]]

\* re.findall(r"[A-Za-z][a-z]*|[A-Z]+(?![a-z])", s) from position i: at a
\* letter the first alternative matches the letter and the lower-case run
\* after it, so the second alternative is never tried; any other character
\* is skipped
RECURSIVE FindWords(_, _)
FindWords(s, i) ==
    IF i > Len(s) THEN <<>>
    ELSE IF IsLetterCh(s[i])
    THEN <<SubSeq(s, i, LowerRunEnd(s, i))>> \o FindWords(s, LowerRunEnd(s, i) + 1)
    ELSE FindWords(s, i + 1)

\* "".join(p.capitalize() for p in parts if p)
RECURSIVE utils_to_pascal_case(_)
utils_to_pascal_case(parts) ==
    IF parts = <<>> THEN <<>>
    ELSE str_capitalize(Head(parts)) \o utils_to_pascal_case(Tail(parts))

to_pascal_case_from_str(s) == utils_to_pascal_case(FindWords(DashesToSpaces(s), 1))

\* re.split(r"\W+", name): cur is the piece being read, in_sep whether the
\* character before was a separator
RECURSIVE SplitNonWord(_, _, _)
SplitNonWord(s, cur, in_sep) ==
    IF s = <<>> THEN <<cur>>
    ELSE IF IsWordCh(Head(s)) THEN SplitNonWord(Tail(s), Append(cur, Head(s)), FALSE)
    ELSE IF in_sep THEN SplitNonWord(Tail(s), cur, TRUE)
    ELSE <<cur>> \o SplitNonWord(Tail(s), <<>>, TRUE)

\* `if parts and to_pascal_case_from_str(parts[0]) == root: parts = parts[1:]`
DropRootPart(parts, root) ==
    IF parts # <<>> /\ to_pascal_case_from_str(Head(parts)) = root THEN Tail(parts) ELSE parts

\* `if not parts: parts = [root]`
PartsOrRoot(parts, root) == IF parts = <<>> THEN <<root>> ELSE parts

\* suffix[:1].upper() + suffix[1:]
UpperFirst(s) == [i \in 1..Len(s) |-> IF i = 1 THEN UpperCh(s[i]) ELSE s[i]]

unique_type_name(name, suffix, root_node) ==
    utils_to_pascal_case(
        PartsOrRoot(DropRootPart(SplitNonWord(name, <<>>, FALSE),
                                 to_pascal_case_from_str(root_node)),
                    to_pascal_case_from_str(root_node)))
    \o UpperFirst(suffix)

\* "wrapper" in name.lower()
IsWrapperKey(name) ==
    \E i \in 1..Len(name) :
        i + 6 <= Len(name) /\ SubSeq(str_lower(name), i, i + 6) = <<"w","r","a","p","p","e","r">>

-----------------------------------------------------------------------------
(* The three policies (build_filter_models, build_mutation_models,         *)
(* build_full_models) and build_schema (lif.graphql.schema_factory).       *)

FilterSuffix == <<"F","i","l","t","e","r">>
MutationSuffix == <<"M","u","t","a","t","i","o","n">>
TypeSuffix == <<"T","y","p","e">>
InputSuffix == <<"I","n","p","u","t">>

build_filter_models(fields, allow, optional, e) ==
    build_dynamic_model(fields, "xQueryable", allow, FilterSuffix, optional, e)

build_mutation_models(fields, allow, optional, e) ==
    build_dynamic_model(fields, "xMutable", allow, MutationSuffix, optional, e)

build_full_models(fields, allow, optional, e) ==
    build_dynamic_model(fields, None, allow, TypeSuffix, optional, e)

\* the name a projection loop gives the record under `name`: tname of the
\* output loop, iname of the two input loops
ProjectedName(policy, name, root_node) ==
    IF policy = "full" THEN to_pascal_case_from_str(name)
    ELSE IF policy = "filter"
    THEN to_pascal_case_from_str(unique_type_name(name, FilterSuffix \o InputSuffix, root_node))
    ELSE to_pascal_case_from_str(unique_type_name(name, MutationSuffix \o InputSuffix, root_node))

\* a variant of the registration below in which the record seen last wins
RegisterLastWins(registry, tname, entry) == Put(registry, tname, entry)

\* `if tname not in strawberry_types: strawberry_types[tname] = pyd_type(model=model, ...)(...)`
RegisterFirstSeen(registry, tname, entry) ==
    IF tname \in DOMAIN registry THEN registry ELSE Put(registry, tname, entry)

\* one round of a projection loop: `if "wrapper" in name.lower(): continue`,
\* else the registration; an entry holds the policy, the key and the
\* compiled record (model) it was built from
ProjectOne(policy, m, name, root_node, registry) ==
    IF IsWrapperKey(name) THEN registry
    ELSE RegisterFirstSeen(registry, ProjectedName(policy, name, root_node),
                           [policy |-> policy, key |-> name, model |-> m.models[name]])

\* `for name, model in <policy>_models.items()`, from the keys left to visit
RECURSIVE ProjectModels(_, _, _, _, _)
ProjectModels(policy, m, keys, root_node, registry) ==
    IF keys = <<>> THEN registry
    ELSE ProjectModels(policy, m, Tail(keys), root_node,
                       ProjectOne(policy, m, Head(keys), root_node, registry))

\* the enum heap a compile leaves to the next one
EnumHeap(r) == [cache |-> r.cache, next_id |-> r.next_id, calls |-> r.calls]

\* build_schema did not return: the ValueError of a compile or the KeyError
\* of a root lookup
SchemaError(e) ==
    [outcome |-> "raised", strawberry_types |-> EmptyDict, strawberry_inputs |-> EmptyDict,
     RootType |-> <<>>, FilterInput |-> <<>>, MutationInput |-> <<>>,
     full_models |-> EmptyDict, maps |-> EmptyDict, classes |-> EmptyDict,
     query |-> {}, mutation |-> {}, bound |-> EmptyDict,
     cache |-> e.cache, next_id |-> e.next_id, calls |-> e.calls]

\* a variant of the lookups below that never fails
RootsMissingUnchecked(root_node, types, inputs) == FALSE

\* the lookups `strawberry_types[root_name]`, `strawberry_inputs[...FilterInput...]`,
\* `strawberry_inputs[...MutationInput...]`: whether one of them is a KeyError
RootsMissing(root_node, types, inputs) ==
    \/ ProjectedName("full", root_node, root_node) \notin DOMAIN types
    \/ ProjectedName("filter", to_pascal_case_from_str(root_node), root_node) \notin DOMAIN inputs
    \/ ProjectedName("mutation", to_pascal_case_from_str(root_node), root_node) \notin DOMAIN inputs

\* `global RootType, FilterInput, MutationInput` and the three assignments
\* in their order: the module globals the call rebinds, each to the name of
\* the type it now refers to; a lookup that fails leaves its global and the
\* ones after it as they were
BoundGlobals(root_node, types, inputs) ==
    IF ProjectedName("full", root_node, root_node) \notin DOMAIN types THEN EmptyDict
    ELSE IF ProjectedName("filter", to_pascal_case_from_str(root_node), root_node)
                \notin DOMAIN inputs
    THEN Put(EmptyDict, "RootType", ProjectedName("full", root_node, root_node))
    ELSE IF ProjectedName("mutation", to_pascal_case_from_str(root_node), root_node)
                \notin DOMAIN inputs
    THEN Put(Put(EmptyDict, "RootType", ProjectedName("full", root_node, root_node)),
             "FilterInput",
             ProjectedName("filter", to_pascal_case_from_str(root_node), root_node))
    ELSE Put(Put(Put(EmptyDict, "RootType", ProjectedName("full", root_node, root_node)),
                 "FilterInput",
                 ProjectedName("filter", to_pascal_case_from_str(root_node), root_node)),
             "MutationInput",
             ProjectedName("mutation", to_pascal_case_from_str(root_node), root_node))

\* the Schema: class Query with the fields persons and person, no mutation
\* root (`# mutation=Mutation`), and what the resolvers close over
\* (RootType, FilterInput, full_models); maps holds filter_models,
\* mutation_models and full_models with their keys in iteration order,
\* classes the compiled records of the three policies
SchemaOf(root_node, rf, rm, rt, types, inputs) ==
    IF RootsMissing(root_node, types, inputs)
    THEN [SchemaError(rt) EXCEPT !.bound = BoundGlobals(root_node, types, inputs)]
    ELSE [outcome |-> "returned", strawberry_types |-> types, strawberry_inputs |-> inputs,
          RootType |-> ProjectedName("full", root_node, root_node),
          FilterInput |-> ProjectedName("filter", to_pascal_case_from_str(root_node), root_node),
          MutationInput |-> ProjectedName("mutation", to_pascal_case_from_str(root_node), root_node),
          full_models |-> rt.models,
          maps |-> [policy \in {"filter", "mutation", "full"} |->
                       IF policy = "filter" THEN [models |-> rf.models, keys |-> rf.keys]
                       ELSE IF policy = "mutation" THEN [models |-> rm.models, keys |-> rm.keys]
                       ELSE [models |-> rt.models, keys |-> rt.keys]],
          classes |-> [policy \in {"filter", "mutation", "full"} |->
                          IF policy = "filter" THEN rf.classes
                          ELSE IF policy = "mutation" THEN rm.classes ELSE rt.classes],
          query |-> {"persons", "person"}, mutation |-> {},
          bound |-> BoundGlobals(root_node, types, inputs),
          cache |-> rt.cache, next_id |-> rt.next_id, calls |-> rt.calls]

\* the three projection loops, after the three compiles
Project(root_node, rf, rm, rt) ==
    SchemaOf(root_node, rf, rm, rt,
             ProjectModels("full", rt, rt.keys, root_node, EmptyDict),
             ProjectModels("mutation", rm, rm.keys, root_node,
                           ProjectModels("filter", rf, rf.keys, root_node, EmptyDict)))

AfterFullModels(root_node, rf, rm, rt) ==
    IF rt.outcome = "raised" THEN SchemaError(rt) ELSE Project(root_node, rf, rm, rt)

AfterMutationModels(fields, root_node, rf, rm) ==
    IF rm.outcome = "raised" THEN SchemaError(rm)
    ELSE AfterFullModels(root_node, rf, rm, build_full_models(fields, FALSE, TRUE, EnumHeap(rm)))

AfterFilterModels(fields, root_node, rf) ==
    IF rf.outcome = "raised" THEN SchemaError(rf)
    ELSE AfterMutationModels(fields, root_node, rf,
                             build_mutation_models(fields, FALSE, TRUE, EnumHeap(rf)))

\* build_schema(schema_fields=fields, root_node=root_node, backend=...) on the enum heap e
build_schema(fields, root_node, e) ==
    AfterFilterModels(fields, root_node, build_filter_models(fields, FALSE, FALSE, e))

-----------------------------------------------------------------------------
(* Constructing an instance of a compiled class (pydantic BaseModel).      *)

FieldNames(cls) == {cls.fields[i].name : i \in 1..Len(cls.fields)}

\* cls(**payload), where payload is the set of the names given a valid value:
\* a required field left out, or a name that is no field under
\* extra="forbid", is a ValidationError; a field left out holds its default None
Construct(cls, payload) ==
    LET missing == {i \in 1..Len(cls.fields) :
                        cls.fields[i].required /\ cls.fields[i].name \notin payload}
        unknown == payload \ FieldNames(cls)
    IN  IF missing # {} \/ (unknown # {} /\ cls.extra = "forbid")
        THEN [ok |-> FALSE, none |-> {}, extras |-> {}]
        ELSE [ok |-> TRUE, none |-> FieldNames(cls) \ payload, extras |-> unknown]

-----------------------------------------------------------------------------
(* The inputs.                                                             *)

\* the longest schema_fields list
MaxFields == 2

\* the most make_enum calls in a row
MaxCalls == 3

\* the most threads inside make_enum at once
MaxThreads == 2

\* the longest schema_fields list given to build_schema
MaxSchemaFields == 2

\* the most build_schema calls in one process
MaxBuilds == 2

\* the most initialize_types calls on the singleton
MaxInitCalls == 3

\* the most selections in the selection set of a field node given to
\* get_selected_field_paths
MaxSelections == 2

\* the most properties of the schema given to extract_nodes
MaxProperties == 2

\* the most fields of a model given to pydantic_inputs_to_dict
MaxModelFields == 2

\* attribute bags, as the extractor and the tests write them
FlaggedScalar == [xQueryable |-> TRUE, dataType |-> "xsd:integer", array |-> <<"N","o">>]
FlaggedArray == [xQueryable |-> TRUE, array |-> <<"Y","e","s">>]
FlaggedNamedArray == [xQueryable |-> TRUE, array |-> <<"Y","e","s">>, uniqueName |-> <<"a">>]
UnflaggedArray == [dataType |-> "xsd:date", array |-> <<"Y","e","s">>]
UnflaggedScalar == [dataType |-> "xsd:date", array |-> <<"N","o">>]
UnflaggedEnumArray == [xQueryable |-> FALSE, enum |-> << <<"x">>, <<"y">> >>,
                       array |-> <<"t","r","u","e">>]
\* the bag extract_nodes writes for an object node with properties
FlaggedBranch == [xQueryable |-> TRUE, array |-> <<"N","o">>, branch |-> TRUE, leaf |-> FALSE]

DescriptionOf(attributes) ==
    IF "enum" \in DOMAIN attributes THEN "an enumeration"
    ELSE IF "uniqueName" \in DOMAIN attributes THEN "a named node"
    ELSE Get(attributes, "dataType", "a node")

SchemaField(json_path, attributes) ==
    [json_path |-> json_path, description |-> DescriptionOf(attributes), attributes |-> attributes]

\* the fields the input lists are drawn from: a root p, a node p.a that is a
\* leaf or a branch, its child p.a.b, a nested segment that repeats the
\* root's name (p.p.a) and a second root q
SchemaFields ==
    { SchemaField(<<"p">>, FlaggedNamedArray),
      SchemaField(<<"p">>, UnflaggedScalar),
      SchemaField(<<"p",".","a">>, FlaggedScalar),
      SchemaField(<<"p",".","a">>, FlaggedArray),
      SchemaField(<<"p",".","a">>, UnflaggedArray),
      SchemaField(<<"p",".","a">>, UnflaggedEnumArray),
      SchemaField(<<"p",".","a">>, FlaggedBranch),
      SchemaField(<<"p",".","a",".","b">>, FlaggedScalar),
      SchemaField(<<"p",".","a",".","b">>, UnflaggedEnumArray),
      SchemaField(<<"p",".","a",".","b">>, UnflaggedArray),
      SchemaField(<<"p",".","p",".","a">>, FlaggedScalar),
      SchemaField(<<"q",".","a">>, FlaggedScalar),
      SchemaField(<<"q",".","a">>, UnflaggedScalar) }

FieldLists == UNION { [1..n -> SchemaFields] : n \in 0..MaxFields }

AttributeFlags == { None, "xQueryable" }

ModelSuffixes == { <<>>, <<"P">>, <<"F">> }

EnumNames == { <<"A">>, <<"A","_","x">> }

EnumValueLists == { << <<"x">>, <<"y">> >>, << <<"y">>, <<"x">> >>,
                    << <<"x","_","y">> >>, << <<"y">> >>, << <<"x">> >> }

\* the fields build_schema is given: a leaf p.a under each flagging, two
\* branches whose keys differ in case only (b, B) and a second root q
Both == [xQueryable |-> TRUE, xMutable |-> TRUE, dataType |-> "xsd:integer", array |-> <<"N","o">>]
QueryableOnly == [xQueryable |-> TRUE, dataType |-> "xsd:integer", array |-> <<"N","o">>]

GraphqlFields ==
    { SchemaField(<<"p",".","a">>, Both),
      SchemaField(<<"p",".","a">>, QueryableOnly),
      SchemaField(<<"p",".","a">>, UnflaggedScalar),
      SchemaField(<<"p",".","b",".","c">>, Both),
      SchemaField(<<"p",".","B",".","c">>, Both),
      SchemaField(<<"q",".","a">>, Both) }

GraphqlFieldLists == UNION { [1..n -> GraphqlFields] : n \in 0..MaxSchemaFields }

\* the configured root: as create_app gives it, and as the paths spell it
RootTypes == { <<"P">>, <<"p">> }

\* a filter as the caller gives it: the field names given, and those of them
\* whose value is of the wrong type or not a literal of the enum
FilterPayloads ==
    { [given |-> {}, bad |-> {}],
      [given |-> {<<"a">>}, bad |-> {}],
      [given |-> {<<"a">>}, bad |-> {<<"a">>}],
      [given |-> {<<"a">>, <<"z">>}, bad |-> {}],
      [given |-> {<<"b">>}, bad |-> {}] }

\* what Backend.query returns: a list of records, each the set of the keys it holds
BackendResponses ==
    { <<>>, << {<<"a">>} >>, << {<<"a">>}, {} >>, << {<<"z">>} >> }

\* no thread has entered make_enum
NoThreads == [t \in 1..MaxThreads |-> [at |-> "idle"]]

\* no resolver is running
NoRequest == [at |-> "idle"]

\* no invocation has finished
NoInvocation == [outcome |-> "none"]

\* build_schema has not been called
NoSchema ==
    [outcome |-> "none", strawberry_types |-> EmptyDict, strawberry_inputs |-> EmptyDict,
     RootType |-> <<>>, FilterInput |-> <<>>, MutationInput |-> <<>>,
     full_models |-> EmptyDict, maps |-> EmptyDict, classes |-> EmptyDict,
     query |-> {}, mutation |-> {}, bound |-> EmptyDict,
     cache |-> EmptyDict, next_id |-> 1, calls |-> <<>>]

\* the module globals as the module sets them: `RootType = None`, ...; a
\* bound global holds the type's name and the build_schema call that made it
GlobalNames == {"RootType", "FilterInput", "MutationInput"}

NoGlobals == [g \in GlobalNames |-> [build |-> 0, name |-> <<>>]]

\* the TypeRegistry singleton after __init__
NoRegistry ==
    [strawberry_types |-> EmptyDict, strawberry_inputs |-> EmptyDict,
     pydantic_models |-> EmptyDict]

\* no function has been applied
NoArgs == [fn |-> "none"]

NotReturned == [done |-> FALSE]

\* the state of the GraphQL layer where it plays no part
NoGraphql ==
    /\ root_type = <<>>
    /\ schema = NoSchema
    /\ request = NoRequest
    /\ backend_calls = <<>>
    /\ last = NoInvocation
    /\ module_globals = NoGlobals
    /\ build_count = 0

\* the state of the registry and of the functions where they play no part
NoOther ==
    /\ type_registry = NoRegistry
    /\ registry_log = <<>>
    /\ args = NoArgs
    /\ returned = NotReturned

-----------------------------------------------------------------------------
(* The compiler: one invocation of build_dynamic_model per behaviour.      *)

Init ==
    /\ schema_fields \in FieldLists
    /\ attribute_flag \in AttributeFlags
    /\ allow_extra \in BOOLEAN
    /\ model_suffix \in ModelSuffixes
    /\ all_optional \in BOOLEAN
    /\ pc = "call"
    /\ models = EmptyDict
    /\ classes = EmptyDict
    /\ ENUM_CLASS_CACHE = EmptyDict
    /\ next_id = 1
    /\ calls = <<>>
    /\ threads = NoThreads
    /\ NoGraphql
    /\ NoOther

BuildDynamicModel ==
    /\ pc = "call"
    /\ \E r \in {build_dynamic_model(schema_fields, attribute_flag, allow_extra,
                                     model_suffix, all_optional,
                                     [cache |-> ENUM_CLASS_CACHE, next_id |-> next_id,
                                      calls |-> calls])} :
           /\ pc' = r.outcome
           /\ models' = r.models
           /\ classes' = r.classes
           /\ ENUM_CLASS_CACHE' = r.cache
           /\ next_id' = r.next_id
           /\ calls' = r.calls
    /\ UNCHANGED <<schema_fields, attribute_flag, allow_extra, model_suffix, all_optional>>
    /\ UNCHANGED threads
    /\ UNCHANGED graphqlVars
    /\ UNCHANGED <<registryVars, functionVars>>

Next == BuildDynamicModel

Spec == Init /\ [][Next]_vars

-----------------------------------------------------------------------------
(* The enum cache: a run of make_enum calls in one process.                *)

InitEnum ==
    /\ schema_fields = <<>>
    /\ attribute_flag = None
    /\ allow_extra = FALSE
    /\ model_suffix = <<>>
    /\ all_optional = TRUE
    /\ pc = "call"
    /\ models = EmptyDict
    /\ classes = EmptyDict
    /\ ENUM_CLASS_CACHE = EmptyDict
    /\ next_id = 1
    /\ calls = <<>>
    /\ threads = NoThreads
    /\ NoGraphql
    /\ NoOther

MakeEnum(name, values) ==
    /\ Len(calls) < MaxCalls
    /\ LET r == make_enum([cache |-> ENUM_CLASS_CACHE, next_id |-> next_id, calls |-> calls],
                          name, values)
       IN  /\ ENUM_CLASS_CACHE' = r.cache
           /\ next_id' = r.next_id
           /\ calls' = r.calls
    /\ UNCHANGED <<schema_fields, attribute_flag, allow_extra, model_suffix, all_optional,
                   pc, models, classes, threads>>
    /\ UNCHANGED graphqlVars
    /\ UNCHANGED <<registryVars, functionVars>>

NextEnum == \E name \in EnumNames, values \in EnumValueLists : MakeEnum(name, values)

SpecEnum == InitEnum /\ [][NextEnum]_vars

-----------------------------------------------------------------------------
(* The enum cache under threads: make_enum takes no lock, so a thread may  *)
(* be preempted between the membership test and the store.                 *)

\* `cache_key = ...; if cache_key in _ENUM_CLASS_CACHE: return _ENUM_CLASS_CACHE[cache_key]`
EnumLookup(t, name, values) ==
    /\ threads[t].at = "idle"
    /\ IF CacheKey(name, values) \in DOMAIN ENUM_CLASS_CACHE
       THEN /\ threads' = [threads EXCEPT ![t] = [at |-> "returned"]]
            /\ calls' = Append(calls, [name |-> name, values |-> values,
                                       id |-> ENUM_CLASS_CACHE[CacheKey(name, values)].id])
       ELSE /\ threads' = [threads EXCEPT ![t] = [at |-> "missed", name |-> name,
                                                  values |-> values]]
            /\ calls' = calls
    /\ UNCHANGED <<schema_fields, attribute_flag, allow_extra, model_suffix, all_optional,
                   pc, models, classes, ENUM_CLASS_CACHE, next_id>>
    /\ UNCHANGED graphqlVars
    /\ UNCHANGED <<registryVars, functionVars>>

\* `enum_cls = Enum(name, members, ...); _ENUM_CLASS_CACHE[cache_key] = enum_cls; return enum_cls`
EnumStore(t) ==
    /\ threads[t].at = "missed"
    /\ ENUM_CLASS_CACHE' = Put(ENUM_CLASS_CACHE, CacheKey(threads[t].name, threads[t].values),
                               [id |-> next_id, name |-> threads[t].name,
                                members |-> EnumMembers(threads[t].values, <<>>)])
    /\ next_id' = next_id + 1
    /\ calls' = Append(calls, [name |-> threads[t].name, values |-> threads[t].values,
                               id |-> next_id])
    /\ threads' = [threads EXCEPT ![t] = [at |-> "returned"]]
    /\ UNCHANGED <<schema_fields, attribute_flag, allow_extra, model_suffix, all_optional,
                   pc, models, classes>>
    /\ UNCHANGED graphqlVars
    /\ UNCHANGED <<registryVars, functionVars>>

NextEnumThreads ==
    \/ \E t \in 1..MaxThreads, name \in EnumNames, values \in EnumValueLists :
           EnumLookup(t, name, values)
    \/ \E t \in 1..MaxThreads : EnumStore(t)

SpecEnumThreads == InitEnum /\ [][NextEnumThreads]_vars

-----------------------------------------------------------------------------
(* The GraphQL layer: build_schema at start-up, then the resolvers         *)
(* Query.persons and Query.person, each suspended at `await backend.query`.*)

InitGraphql ==
    /\ schema_fields \in GraphqlFieldLists
    /\ root_type \in RootTypes
    /\ attribute_flag = None
    /\ allow_extra = FALSE
    /\ model_suffix = <<>>
    /\ all_optional = TRUE
    /\ pc = "call"
    /\ models = EmptyDict
    /\ classes = EmptyDict
    /\ ENUM_CLASS_CACHE = EmptyDict
    /\ next_id = 1
    /\ calls = <<>>
    /\ threads = NoThreads
    /\ schema = NoSchema
    /\ request = NoRequest
    /\ backend_calls = <<>>
    /\ last = NoInvocation
    /\ module_globals = NoGlobals
    /\ build_count = 0
    /\ NoOther

\* the module globals after the n-th build_schema call rebound those in `bound`
Rebind(globals, bound, n) ==
    [g \in GlobalNames |->
        IF g \in DOMAIN bound THEN [build |-> n, name |-> bound[g]] ELSE globals[g]]

\* create_app: `schema = build_schema(schema_fields=fields, root_node=root_type, backend=backend)`
BuildSchema ==
    /\ pc = "call"
    /\ \E r \in {build_schema(schema_fields, root_type,
                               [cache |-> ENUM_CLASS_CACHE, next_id |-> next_id,
                                calls |-> calls])} :
           /\ pc' = r.outcome
           /\ schema' = r
           /\ ENUM_CLASS_CACHE' = r.cache
           /\ next_id' = r.next_id
           /\ calls' = r.calls
           /\ module_globals' = Rebind(module_globals, r.bound, build_count + 1)
    /\ build_count' = build_count + 1
    /\ UNCHANGED <<schema_fields, attribute_flag, allow_extra, model_suffix, all_optional,
                   models, classes, threads, root_type, request, backend_calls, last>>
    /\ UNCHANGED <<registryVars, functionVars>>

\* the compiled record behind a projected input or output type
ModelClass(sch, entry) == sch.classes[entry.policy][entry.model]

\* a variant that lets every payload through
ValidFilterAlways(sch, payload) == TRUE

\* filter.to_pydantic() inside pydantic_inputs_to_dict: whether the payload
\* meets the constraints of the compiled filter record
ValidFilter(sch, payload) ==
    /\ payload.bad = {}
    /\ Construct(ModelClass(sch, sch.strawberry_inputs[sch.FilterInput]), payload.given).ok

\* how an invocation ended, with the Backend calls it made
Invocation(outcome, op, filter, records, result) ==
    [outcome |-> outcome, op |-> op, filter |-> filter, records |-> records,
     result |-> result, backend_calls |-> Len(backend_calls)]

\* a resolver up to its `await backend.query(filter_dict, selected)`:
\* pydantic_inputs_to_dict raises on a payload that fails validation, else
\* the one call to the Backend is made
Resolve(op, payload) ==
    /\ pc = "returned"
    /\ request.at = "idle"
    /\ IF ValidFilter(schema, payload)
       THEN /\ backend_calls' = <<[method |-> "query", filter |-> payload.given]>>
            /\ request' = [at |-> "awaiting", op |-> op, filter |-> payload]
            /\ last' = last
       ELSE /\ backend_calls' = <<>>
            /\ request' = NoRequest
            /\ last' = [Invocation("validation_error", op, payload, <<>>, <<>>)
                            EXCEPT !.backend_calls = 0]
    /\ UNCHANGED <<compilerVars, enumVars, root_type, schema, module_globals, build_count>>
    /\ UNCHANGED <<registryVars, functionVars>>

\* Query.persons(info, filter)
Persons(payload) == Resolve("persons", payload)

\* Query.person(info, filter)
Person(payload) == Resolve("person", payload)

\* RootType.from_pydantic(full_models[root_node](**p)): RootType is the
\* module global as bound when the resolver runs, full_models and root_node
\* are the closure's
TypedObject(sch, root_node, p) ==
    [type |-> module_globals.RootType, model |-> sch.full_models[root_node],
     data |-> Construct(sch.classes["full"][sch.full_models[root_node]], p)]

\* [RootType.from_pydantic(full_models[root_node](**p)) for p in persons]:
\* a KeyError when full_models has no key root_node, a ValidationError when
\* a record does not construct
MapRecords(sch, root_node, op, filter, records) ==
    IF records = <<>> THEN Invocation("returned", op, filter, records, <<>>)
    ELSE IF root_node \notin DOMAIN sch.full_models
    THEN Invocation("key_error", op, filter, records, <<>>)
    ELSE IF \E n \in 1..Len(records) : ~TypedObject(sch, root_node, records[n]).data.ok
    THEN Invocation("validation_error_out", op, filter, records, <<>>)
    ELSE Invocation("returned", op, filter, records,
                    [n \in 1..Len(records) |-> TypedObject(sch, root_node, records[n])])

\* `... if persons else None` of Query.person: only persons[0] is looked at
FirstOf(records) == IF records = <<>> THEN <<>> ELSE <<Head(records)>>

\* the Backend answers with a list of records and the resolver maps them
QueryReturns(records) ==
    /\ request.at = "awaiting"
    /\ last' = MapRecords(schema, root_type, request.op, request.filter,
                          IF request.op = "person" THEN FirstOf(records) ELSE records)
    /\ request' = NoRequest
    /\ UNCHANGED <<compilerVars, enumVars, root_type, schema, backend_calls,
                   module_globals, build_count>>
    /\ UNCHANGED <<registryVars, functionVars>>

\* the Backend call raises: the resolver has no handler, the error propagates
QueryRaises ==
    /\ request.at = "awaiting"
    /\ last' = Invocation("backend_error", request.op, request.filter, <<>>, <<>>)
    /\ request' = NoRequest
    /\ UNCHANGED <<compilerVars, enumVars, root_type, schema, backend_calls,
                   module_globals, build_count>>
    /\ UNCHANGED <<registryVars, functionVars>>

NextGraphql ==
    \/ BuildSchema
    \/ \E payload \in FilterPayloads : Persons(payload)
    \/ \E payload \in FilterPayloads : Person(payload)
    \/ \E records \in BackendResponses : QueryReturns(records)
    \/ QueryRaises

SpecGraphql == InitGraphql /\ [][NextGraphql]_vars

-----------------------------------------------------------------------------
(* build_schema called again in the same process, for another root or      *)
(* other fields, while the first schema is in use.                         *)

\* the arguments of a later build_schema call: the same root again, another
\* root, a list with no xMutable field and the empty list
RebuildInputs ==
    { [fields |-> << SchemaField(<<"p",".","a">>, Both) >>, root_node |-> <<"p">>],
      [fields |-> << SchemaField(<<"q",".","a">>, Both) >>, root_node |-> <<"q">>],
      [fields |-> << SchemaField(<<"p",".","a">>, QueryableOnly) >>, root_node |-> <<"p">>],
      [fields |-> <<>>, root_node |-> <<"p">>] }

\* build_schema(schema_fields=b.fields, root_node=b.root_node, backend=...)
\* after the first schema was built: the module globals are rebound, the
\* first schema object and what its resolvers close over stay as they are
Rebuild(b) ==
    /\ pc = "returned"
    /\ build_count < MaxBuilds
    /\ \E r \in {build_schema(b.fields, b.root_node,
                               [cache |-> ENUM_CLASS_CACHE, next_id |-> next_id,
                                calls |-> calls])} :
           /\ ENUM_CLASS_CACHE' = r.cache
           /\ next_id' = r.next_id
           /\ calls' = r.calls
           /\ module_globals' = Rebind(module_globals, r.bound, build_count + 1)
    /\ build_count' = build_count + 1
    /\ UNCHANGED <<compilerVars, threads, root_type, schema, request, backend_calls, last>>
    /\ UNCHANGED <<registryVars, functionVars>>

NextRebuild ==
    \/ NextGraphql
    \/ \E b \in RebuildInputs : Rebuild(b)

SpecRebuild == InitGraphql /\ [][NextRebuild]_vars

-----------------------------------------------------------------------------
(* lif.graphql.utils.get_selected_field_paths.  A selection is a field     *)
(* (kind "field", with its own selection set, empty for a scalar), a       *)
(* fragment spread (kind "fragment_spread") or an inline fragment; a node  *)
(* is anything with a selection_set: a field or a fragment definition.     *)
(* The list the function returns is list(set): a set, in no given order.   *)

FieldSelection(name, selections) ==
    [kind |-> "field", name |-> name, selection_set |-> selections]

FragmentSpread(name) ==
    [kind |-> "fragment_spread", name |-> name, selection_set |-> <<>>]

InlineFragment(selections) ==
    [kind |-> "inline_fragment", name |-> <<>>, selection_set |-> selections]

\* `prefix = [] if prefix is None else ([prefix] if isinstance(prefix, str) else prefix)`
NormalPrefix(prefix) ==
    IF prefix.kind = "none" THEN <<>>
    ELSE IF prefix.kind = "str" THEN <<prefix.value>>
    ELSE prefix.value

\* a variant in which a spread contributes below the fragment's name
SpreadPrefixNamed(prefix, selection) == Append(prefix, selection.name)

\* the prefix of the recursive call for a fragment spread: `prefix`
SpreadPrefix(prefix, selection) == prefix

RECURSIVE PathsOfNodes(_, _, _)
RECURSIVE PathsOfSelection(_, _, _)

\* one arm of `match selection.kind`; a kind without a case adds nothing
PathsOfSelection(selection, fragments, prefix) ==
    IF selection.kind = "field"
    THEN {str_join(<<".">>, Append(prefix, selection.name))}
             \cup PathsOfNodes(<<selection>>, fragments, Append(prefix, selection.name))
    ELSE IF selection.kind = "fragment_spread"
    THEN PathsOfNodes(<<fragments[selection.name]>>, fragments,
                      SpreadPrefix(prefix, selection))
    ELSE {}

\* the loop over field_nodes; `if not sel_set: continue`
PathsOfNodes(field_nodes, fragments, prefix) ==
    UNION {UNION {PathsOfSelection(field_nodes[n].selection_set[k], fragments, prefix) :
                      k \in 1..Len(field_nodes[n].selection_set)} :
               n \in 1..Len(field_nodes)}

get_selected_field_paths(field_nodes, fragments, prefix) ==
    PathsOfNodes(field_nodes, fragments, NormalPrefix(prefix))

\* the selection sets below the top: scalars b and c, the spread of F and
\* an inline fragment
NestedSelections == { FieldSelection(<<"b">>, <<>>), FieldSelection(<<"c">>, <<>>),
                      FragmentSpread(<<"F">>), InlineFragment(<<FieldSelection(<<"d">>, <<>>)>>) }

NestedSelectionSets == UNION { [1..n -> NestedSelections] : n \in 1..2 }

\* the selections of the top: scalars, the field a over each nested
\* selection set, and the spreads of F and G
TopSelections ==
    { FieldSelection(<<"a">>, <<>>), FieldSelection(<<"c">>, <<>>),
      FragmentSpread(<<"F">>), FragmentSpread(<<"G">>) }
    \cup { FieldSelection(<<"a">>, ss) : ss \in NestedSelectionSets }

TopSelectionSets == UNION { [1..n -> TopSelections] : n \in 0..MaxSelections }

\* the fragments of the document, by name; F may spread G, G spreads nothing
FragmentMaps ==
    { [f \in {<<"F">>, <<"G">>} |->
          IF f = <<"F">> THEN FieldSelection(<<"F">>, <<FieldSelection(<<"d">>, <<>>)>>)
          ELSE FieldSelection(<<"G">>, <<FieldSelection(<<"b">>, <<>>)>>)],
      [f \in {<<"F">>, <<"G">>} |->
          IF f = <<"F">>
          THEN FieldSelection(<<"F">>, <<FieldSelection(<<"d">>, <<>>), FragmentSpread(<<"G">>)>>)
          ELSE FieldSelection(<<"G">>,
                   <<FieldSelection(<<"a">>, <<FieldSelection(<<"b">>, <<>>)>>)>>)] }

\* prefix: None, a str, a list of str (extract_selected_fields gives [info.field_name])
Prefixes ==
    { [kind |-> "none", value |-> <<>>], [kind |-> "list", value |-> <<>>],
      [kind |-> "str", value |-> <<"x">>], [kind |-> "list", value |-> << <<"x">>, <<"y">> >>] }

\* the compiler and the enum cache where they play no part
NoCompiler ==
    /\ schema_fields = <<>>
    /\ attribute_flag = None
    /\ allow_extra = FALSE
    /\ model_suffix = <<>>
    /\ all_optional = TRUE
    /\ pc = "call"
    /\ models = EmptyDict
    /\ classes = EmptyDict
    /\ ENUM_CLASS_CACHE = EmptyDict
    /\ next_id = 1
    /\ calls = <<>>
    /\ threads = NoThreads

InitSelection ==
    /\ NoCompiler
    /\ NoGraphql
    /\ type_registry = NoRegistry
    /\ registry_log = <<>>
    /\ args \in { [fn |-> "get_selected_field_paths",
                    field_nodes |-> <<FieldSelection(<<"q">>, top)>>,
                    fragments |-> fragments, prefix |-> prefix] :
                       top \in TopSelectionSets, fragments \in FragmentMaps,
                       prefix \in Prefixes }
    /\ returned = NotReturned

GetSelectedFieldPaths ==
    /\ ~returned.done
    /\ returned' = [done |-> TRUE,
                    value |-> get_selected_field_paths(args.field_nodes, args.fragments,
                                                       args.prefix)]
    /\ UNCHANGED <<compilerVars, enumVars, graphqlVars, registryVars, args>>

NextSelection == GetSelectedFieldPaths

SpecSelection == InitSelection /\ [][NextSelection]_vars

-----------------------------------------------------------------------------
(* lif.schema.core.extract_nodes and lif.string_utils camelcase_path.      *)
(*                                                                         *)
(* A schema fragment is a dict (kind "dict") or something else (None, a    *)
(* str).  Of a dict, `keys` holds the scalar entries by source key,        *)
(* `properties` is absent, a dict (entries in order) or something else,    *)
(* and `items` is absent, a fragment or a list of fragments.               *)

\* the letter after a run of separators upper-cased and the run dropped; a
\* run that no letter follows stays: re.sub(r"([_\-\s]+)([a-zA-Z])", ...)
RECURSIVE CamelFrom(_, _)
RECURSIVE CamelAfterRun(_, _, _)
CamelAfterRun(s, i, j) ==
    IF j <= Len(s) /\ IsSeparatorCh(s[j]) THEN CamelAfterRun(s, i, j + 1)
    ELSE IF j <= Len(s) /\ IsLetterCh(s[j]) THEN <<UpperCh(s[j])>> \o CamelFrom(s, j + 1)
    ELSE SubSeq(s, i, j - 1) \o CamelFrom(s, j)

CamelFrom(s, i) ==
    IF i > Len(s) THEN <<>>
    ELSE IF IsSeparatorCh(s[i]) THEN CamelAfterRun(s, i, i + 1)
    ELSE <<s[i]>> \o CamelFrom(s, i + 1)

\* s[0].lower() + s[1:]
LowerFirst(s) == [i \in 1..Len(s) |-> IF i = 1 THEN LowerCh(s[i]) ELSE s[i]]

to_camel_case(s) == LowerFirst(CamelFrom(s, 1))

\* ".".join([to_camel_case(p) for p in path.split(".")])
camelcase_path(path) ==
    str_join(<<".">>, [n \in 1..Len(str_split(path, ".")) |->
                          to_camel_case(str_split(path, ".")[n])])

\* s.rstrip(".")
RECURSIVE rstrip_dots(_)
rstrip_dots(s) ==
    IF s # <<>> /\ s[Len(s)] = "." THEN rstrip_dots(SubSeq(s, 1, Len(s) - 1)) ELSE s

\* ATTRIBUTE_KEYS, each with to_camel_case of it
ATTRIBUTE_KEYS ==
    [k \in {"x-queryable", "x-mutable", "DataType", "Required", "Array", "UniqueName",
            "enum", "type"} |->
        IF k = "x-queryable" THEN "xQueryable"
        ELSE IF k = "x-mutable" THEN "xMutable"
        ELSE IF k = "DataType" THEN "dataType"
        ELSE IF k = "Required" THEN "required"
        ELSE IF k = "Array" THEN "array"
        ELSE IF k = "UniqueName" THEN "uniqueName"
        ELSE k]

\* is_array
is_array(node) == Get(node.keys, "type", None) = "array" \/ node.items.kind # "absent"

\* get_description
get_description(node) ==
    IF Get(node.keys, "Description", "") # "" THEN node.keys["Description"]
    ELSE Get(node.keys, "description", "")

\* `branch`, as bool(...)
IsBranch(node) ==
    \/ node.properties.kind = "dict" /\ node.properties.entries # <<>>
    \/ node.items.kind = "dict"

\* extract_attributes, with the branch and leaf entries added to it
extract_attributes(node) ==
    [a \in {ATTRIBUTE_KEYS[k] : k \in DOMAIN ATTRIBUTE_KEYS \cap DOMAIN node.keys}
            \cup {"array", "type", "branch", "leaf"} |->
        IF a = "array"
        THEN (IF "Array" \in DOMAIN node.keys THEN node.keys["Array"]
              ELSE IF is_array(node) THEN <<"Y","e","s">> ELSE <<"N","o">>)
        ELSE IF a = "type" THEN Get(node.keys, "type", Get(node.keys, "DataType", None))
        ELSE IF a = "branch" THEN IsBranch(node)
        ELSE IF a = "leaf" THEN ~IsBranch(node)
        ELSE node.keys[CHOOSE k \in DOMAIN ATTRIBUTE_KEYS \cap DOMAIN node.keys :
                           ATTRIBUTE_KEYS[k] = a]]

\* the prefix of a property with the separator put in below the root too
NewPrefixDotted(path_prefix, prop) == path_prefix \o <<".">> \o prop

\* `new_prefix = f"{path_prefix}.{prop}" if path_prefix else prop`
NewPrefix(path_prefix, prop) ==
    IF path_prefix # <<>> THEN path_prefix \o <<".">> \o prop ELSE prop

RECURSIVE extract_nodes(_, _)
RECURSIVE PropertyNodes(_, _)
RECURSIVE ItemNodes(_, _)

\* `for prop, val in obj["properties"].items(): nodes.extend(...)`
PropertyNodes(entries, path_prefix) ==
    IF entries = <<>> THEN <<>>
    ELSE extract_nodes(Head(entries).value, NewPrefix(path_prefix, Head(entries).key))
         \o PropertyNodes(Tail(entries), path_prefix)

\* `for sub_item in items: nodes.extend(extract_nodes(sub_item, path_prefix))`
ItemNodes(elems, path_prefix) ==
    IF elems = <<>> THEN <<>>
    ELSE extract_nodes(Head(elems), path_prefix) \o ItemNodes(Tail(elems), path_prefix)

extract_nodes(obj, path_prefix) ==
    IF obj.kind # "dict" THEN <<>>
    ELSE << [json_path |-> camelcase_path(rstrip_dots(path_prefix)),
             description |-> get_description(obj),
             attributes |-> extract_attributes(obj)] >>
         \o (IF obj.properties.kind = "dict"
             THEN PropertyNodes(obj.properties.entries, path_prefix) ELSE <<>>)
         \o (IF obj.items.kind = "dict" THEN extract_nodes(obj.items, path_prefix)
             ELSE IF obj.items.kind = "list" THEN ItemNodes(obj.items.elems, path_prefix)
             ELSE <<>>)

\* the fragments the inputs are made of
Absent == [kind |-> "absent"]

NotADict == { [kind |-> "none"], [kind |-> "str"] }

DictNode(keys, properties, items) ==
    [kind |-> "dict", keys |-> keys, properties |-> properties, items |-> items]

PropertiesOf(entries) == [kind |-> "dict", entries |-> entries]

\* scalar properties
ScalarNodes ==
    { DictNode([type |-> "string", description |-> "a string"] @@ ("x-queryable" :> TRUE),
               Absent, Absent),
      DictNode([type |-> "integer", DataType |-> "xsd:integer", Description |-> "an integer"],
               Absent, Absent) }

\* objects with properties, as the items of an array or as a property
ObjectNodes ==
    { DictNode([type |-> "object"],
               PropertiesOf(<< [key |-> <<"b">>, value |-> sc] >>), Absent) : sc \in ScalarNodes }
    \cup { DictNode([type |-> "object"] @@ ("x-queryable" :> TRUE),
                    PropertiesOf(<< [key |-> <<"b","_","c">>, value |-> sc] >>), Absent) :
               sc \in ScalarNodes }
    \cup { DictNode([type |-> "object"], PropertiesOf(<<>>), Absent),
           DictNode([type |-> "object"], [kind |-> "other"], Absent) }

\* what `items` holds: a schema, a list of schemas, or something else
ItemsValues ==
    ScalarNodes \cup ObjectNodes \cup NotADict
    \cup { [kind |-> "list", elems |-> <<sc, ob>>] :
               sc \in ScalarNodes,
               ob \in {DictNode([type |-> "object"],
                                PropertiesOf(<< [key |-> <<"b">>, value |-> sc2] >>), Absent) :
                           sc2 \in ScalarNodes} }

\* arrays: `type: array` with items, flagged or not, and items without a type
ArrayNodes ==
    { DictNode(keys, Absent, items) :
          keys \in { [type |-> "array"],
                     [type |-> "array", description |-> "an array"] @@ ("x-queryable" :> TRUE),
                     [description |-> "items only"] },
          items \in ItemsValues }

PropertyValues == ScalarNodes \cup ObjectNodes \cup ArrayNodes \cup NotADict

PropertyKeys == << <<"a">>, <<"B","_","c">>, <<"d">>, <<"e">> >>

\* the schemas given to extract_nodes: an object with up to MaxProperties
\* properties, and each property value by itself
Schemas ==
    PropertyValues
    \cup UNION { { DictNode([type |-> "object"],
                            PropertiesOf([i \in 1..n |->
                                             [key |-> PropertyKeys[i], value |-> vals[i]]]),
                            Absent) : vals \in [1..n -> PropertyValues] } :
                     n \in {m \in 1..MaxProperties : m <= Len(PropertyKeys)} }

\* path_prefix: the default, a root name, a root name to be camel-cased
PathPrefixes == { <<>>, <<"p">>, <<"P","_","r">> }

InitExtract ==
    /\ schema_fields = <<>>
    /\ attribute_flag \in AttributeFlags
    /\ allow_extra = FALSE
    /\ model_suffix = <<>>
    /\ all_optional \in BOOLEAN
    /\ pc = "call"
    /\ models = EmptyDict
    /\ classes = EmptyDict
    /\ ENUM_CLASS_CACHE = EmptyDict
    /\ next_id = 1
    /\ calls = <<>>
    /\ threads = NoThreads
    /\ NoGraphql
    /\ type_registry = NoRegistry
    /\ registry_log = <<>>
    /\ args \in { [fn |-> "extract_nodes", obj |-> obj, path_prefix |-> path_prefix] :
                       obj \in Schemas, path_prefix \in PathPrefixes }
    /\ returned = NotReturned

\* load_schema_nodes: `return extract_nodes(node, path_prefix)`
ExtractNodes ==
    /\ ~returned.done
    /\ returned' = [done |-> TRUE, value |-> extract_nodes(args.obj, args.path_prefix)]
    /\ UNCHANGED <<compilerVars, enumVars, graphqlVars, registryVars, args>>

\* the extractor's output fed to the compiler:
\* build_dynamic_model(get_schema_fields(), attribute_flag=..., all_optional=...)
CompileExtracted ==
    /\ returned.done
    /\ pc = "call"
    /\ schema_fields' = returned.value
    /\ \E r \in {build_dynamic_model(returned.value, attribute_flag, allow_extra,
                                     model_suffix, all_optional,
                                     [cache |-> ENUM_CLASS_CACHE, next_id |-> next_id,
                                      calls |-> calls])} :
           /\ pc' = r.outcome
           /\ models' = r.models
           /\ classes' = r.classes
           /\ ENUM_CLASS_CACHE' = r.cache
           /\ next_id' = r.next_id
           /\ calls' = r.calls
    /\ UNCHANGED <<attribute_flag, allow_extra, model_suffix, all_optional, threads>>
    /\ UNCHANGED <<graphqlVars, registryVars, functionVars>>

NextExtract == ExtractNodes \/ CompileExtracted

SpecExtract == InitExtract /\ [][NextExtract]_vars

-----------------------------------------------------------------------------
(* lif.graphql.utils.serialize_for_json and lif.graphql.core               *)
(* pydantic_inputs_to_dict.                                                *)
(*                                                                         *)
(* A Python value is a record with its kind: None, a str (its characters), *)
(* an int, a date, a datetime, an Enum member (its value), a pydantic      *)
(* model or a dataclass instance (fields in order), a Strawberry input     *)
(* (the model to_pydantic() gives), a list, a tuple, a dict (entries in    *)
(* order).                                                                 *)

PyNone == [kind |-> "none"]
PyStr(s) == [kind |-> "str", v |-> s]
PyInt(n) == [kind |-> "int", n |-> n]
PyDate(y, m, d) == [kind |-> "date", year |-> y, month |-> m, day |-> d]
PyDateTime(y, m, d, hh, mm, ss, us) ==
    [kind |-> "datetime", year |-> y, month |-> m, day |-> d,
     hour |-> hh, minute |-> mm, second |-> ss, microsecond |-> us]
EnumMember(name, value) == [kind |-> "enum", name |-> name, value |-> value]
PyModel(fields) == [kind |-> "model", fields |-> fields]
PyDataclass(fields) == [kind |-> "dataclass", fields |-> fields]
StrawberryInput(model) == [kind |-> "input", model |-> model]
PyList(elems) == [kind |-> "list", elems |-> elems]
PyTuple(elems) == [kind |-> "tuple", elems |-> elems]
PyDict(entries) == [kind |-> "dict", entries |-> entries]

Entry(key, value) == [key |-> key, value |-> value]

\* n in decimal, zero-padded to the width: "%04d", "%02d", "%06d"
RECURSIVE Padded(_, _)
Padded(n, width) ==
    IF width = 0 THEN <<>>
    ELSE Padded(n \div 10, width - 1) \o <<DigitChars[(n % 10) + 1]>>

\* str(n) of an int that is not negative
RECURSIVE Decimal(_)
Decimal(n) == IF n < 10 THEN <<DigitChars[n + 1]>>
              ELSE Decimal(n \div 10) \o <<DigitChars[(n % 10) + 1]>>

\* date.isoformat(): YYYY-MM-DD
IsoDate(obj) ==
    Padded(obj.year, 4) \o <<"-">> \o Padded(obj.month, 2) \o <<"-">> \o Padded(obj.day, 2)

\* _iso: obj.isoformat(); of a naive datetime YYYY-MM-DDTHH:MM:SS, and
\* .ffffff after it when the microsecond is not 0
_iso(obj) ==
    IF obj.kind = "date" THEN IsoDate(obj)
    ELSE IsoDate(obj) \o <<"T">> \o Padded(obj.hour, 2) \o <<":">> \o Padded(obj.minute, 2)
         \o <<":">> \o Padded(obj.second, 2)
         \o (IF obj.microsecond # 0 THEN <<".">> \o Padded(obj.microsecond, 6) ELSE <<>>)

\* str(k) of a dict key
KeyStr(k) == IF k.kind = "int" THEN PyStr(Decimal(k.n)) ELSE k

\* the entries of a dict after d[key] = value
DictPut(entries, key, value) ==
    IF \E n \in 1..Len(entries) : entries[n].key = key
    THEN [n \in 1..Len(entries) |->
             IF entries[n].key = key THEN Entry(key, value) ELSE entries[n]]
    ELSE Append(entries, Entry(key, value))

\* exclude_none: the fields whose value is not None, in order
RECURSIVE NotNoneFields(_)
NotNoneFields(fields) ==
    IF fields = <<>> THEN <<>>
    ELSE (IF Head(fields).value # PyNone THEN <<Head(fields)>> ELSE <<>>)
         \o NotNoneFields(Tail(fields))

\* BaseModel.model_dump(exclude_none=True): the fields that are not None by
\* name, models inside them dumped the same way; dates and Enum members stay
RECURSIVE model_dump(_)
model_dump(obj) ==
    LET Dumped(v) == IF v.kind = "model" THEN model_dump(v)
                     ELSE IF v.kind = "list"
                          THEN PyList([n \in 1..Len(v.elems) |->
                                          IF v.elems[n].kind = "model"
                                          THEN model_dump(v.elems[n]) ELSE v.elems[n]])
                          ELSE v
        fields == NotNoneFields(obj.fields)
    IN  PyDict([n \in 1..Len(fields) |-> Entry(PyStr(fields[n].key), Dumped(fields[n].value))])

\* dataclasses.asdict: the fields by name; dataclass instances, lists, tuples
\* and dicts inside them converted, a tuple staying a tuple
RECURSIVE asdict_inner(_)
asdict_inner(v) ==
    IF v.kind = "dataclass"
    THEN PyDict([n \in 1..Len(v.fields) |->
                    Entry(PyStr(v.fields[n].key), asdict_inner(v.fields[n].value))])
    ELSE IF v.kind \in {"list", "tuple"}
    THEN [v EXCEPT !.elems = [n \in 1..Len(v.elems) |-> asdict_inner(v.elems[n])]]
    ELSE IF v.kind = "dict"
    THEN PyDict([n \in 1..Len(v.entries) |->
                    Entry(asdict_inner(v.entries[n].key), asdict_inner(v.entries[n].value))])
    ELSE v

\* an Enum member given as itself
EnumMemberKept(obj) == obj

\* `if isinstance(obj, enum.Enum): return obj.value`
EnumValue(obj) == obj.value

RECURSIVE serialize_for_json(_)
RECURSIVE SerializedEntries(_)

\* {str(k): serialize_for_json(v) for k, v in obj.items()}
SerializedEntries(entries) ==
    IF entries = <<>> THEN <<>>
    ELSE DictPut(SerializedEntries(SubSeq(entries, 1, Len(entries) - 1)),
                 KeyStr(entries[Len(entries)].key),
                 serialize_for_json(entries[Len(entries)].value))

serialize_for_json(obj) ==
    IF obj.kind = "model" THEN serialize_for_json(model_dump(obj))
    ELSE IF obj.kind = "dataclass" THEN serialize_for_json(asdict_inner(obj))
    ELSE IF obj.kind = "enum" THEN EnumValue(obj)
    ELSE IF obj.kind \in {"datetime", "date"} THEN PyStr(_iso(obj))
    ELSE IF obj.kind \in {"list", "tuple"}
    THEN PyList([n \in 1..Len(obj.elems) |-> serialize_for_json(obj.elems[n])])
    ELSE IF obj.kind = "dict" THEN PyDict(SerializedEntries(obj.entries))
    ELSE obj

\* pydantic_inputs_to_dict.to_dict
to_dict(obj) ==
    IF obj = PyNone THEN PyNone
    ELSE IF obj.kind = "input" THEN serialize_for_json(obj.model)
    ELSE serialize_for_json(obj)

\* the values of the inputs: what the fields of a compiled model hold
ScalarValues == { PyStr(<<"x">>), PyInt(7), PyNone }

DateValues ==
    { PyDate(2024, 1, 5), PyDate(987, 12, 31),
      PyDateTime(2024, 12, 31, 23, 59, 0, 0), PyDateTime(1999, 1, 1, 0, 0, 7, 5) }

EnumValues == { EnumMember("A", PyStr(<<"a">>)), EnumMember("B", PyInt(1)) }

LeafValues == ScalarValues \cup DateValues \cup EnumValues

NestedModels ==
    { PyModel(<<Entry(<<"d">>, v)>>) : v \in DateValues \cup EnumValues \cup {PyNone} }

FieldValues ==
    LeafValues \cup NestedModels
    \cup { PyList(<<v, w>>) : v \in {PyDate(2024, 1, 5), EnumMember("A", PyStr(<<"a">>))},
                              w \in {PyDate(987, 12, 31), EnumMember("B", PyInt(1))} }
    \cup { PyList(<<m>>) : m \in NestedModels }

ModelFieldNames == << <<"f">>, <<"g">>, <<"h">> >>

\* the models with up to MaxModelFields fields
Models ==
    UNION { { PyModel([i \in 1..n |-> Entry(ModelFieldNames[i], vals[i])]) :
                 vals \in [1..n -> FieldValues] } :
              n \in {m \in 0..MaxModelFields : m <= Len(ModelFieldNames)} }

\* dicts with str and int keys (1 and "1" among them), tuples, dataclass
\* instances
PlainValues ==
    { PyDict(<<Entry(PyInt(1), v), Entry(PyStr(<<"1">>), w)>>) :
          v \in DateValues, w \in EnumValues \cup NestedModels }
    \cup { PyDict(<<Entry(PyInt(12), PyTuple(<<v, w>>))>>) :
               v \in DateValues, w \in EnumValues }
    \cup { PyDataclass(<<Entry(<<"t">>, PyTuple(<<v, PyDataclass(<<Entry(<<"e">>, w)>>)>>))>>) :
               v \in DateValues, w \in EnumValues }

\* filter_input: nothing, a Strawberry input, a model, a plain value
FilterInputs ==
    {PyNone} \cup {StrawberryInput(m) : m \in Models} \cup Models \cup PlainValues

\* mutation_input: nothing or a Strawberry input
MutationInputs ==
    {PyNone} \cup { StrawberryInput(PyModel(<<Entry(<<"f">>, v)>>)) :
                        v \in {PyDateTime(2024, 12, 31, 23, 59, 0, 0),
                               EnumMember("B", PyInt(1))} }

InitSerialize ==
    /\ NoCompiler
    /\ NoGraphql
    /\ type_registry = NoRegistry
    /\ registry_log = <<>>
    /\ args \in { [fn |-> "pydantic_inputs_to_dict", filter_input |-> f, mutation_input |-> m] :
                       f \in FilterInputs, m \in MutationInputs }
    /\ returned = NotReturned

\* `filter_dict, input_dict = pydantic_inputs_to_dict(filter_input=..., mutation_input=...)`
PydanticInputsToDict ==
    /\ ~returned.done
    /\ returned' = [done |-> TRUE, again |-> FALSE,
                    value |-> <<to_dict(args.filter_input), to_dict(args.mutation_input)>>]
    /\ UNCHANGED <<compilerVars, enumVars, graphqlVars, registryVars, args>>

\* serialize_for_json applied to each of the two results
SerializeResult ==
    /\ returned.done
    /\ ~returned.again
    /\ returned' = [done |-> TRUE, again |-> TRUE, first |-> returned.value,
                    value |-> [n \in 1..2 |-> serialize_for_json(returned.value[n])]]
    /\ UNCHANGED <<compilerVars, enumVars, graphqlVars, registryVars, args>>

NextSerialize == PydanticInputsToDict \/ SerializeResult

SpecSerialize == InitSerialize /\ [][NextSerialize]_vars

-----------------------------------------------------------------------------
(* lif.graphql.type_registry: the TypeRegistry singleton.  schema_fields   *)
(* is what get_schema_fields() returns.                                    *)

InitRegistry ==
    /\ schema_fields \in GraphqlFieldLists
    /\ attribute_flag = None
    /\ allow_extra = FALSE
    /\ model_suffix = <<>>
    /\ all_optional = TRUE
    /\ pc = "call"
    /\ models = EmptyDict
    /\ classes = EmptyDict
    /\ ENUM_CLASS_CACHE = EmptyDict
    /\ next_id = 1
    /\ calls = <<>>
    /\ threads = NoThreads
    /\ NoGraphql
    /\ type_registry = NoRegistry
    /\ registry_log = <<>>
    /\ args = NoArgs
    /\ returned = NotReturned

\* an initialize_types call that ended: its arguments, how it ended and
\* whether it invoked get_schema_fields and the three builders
RegistryCall(root_node, minimal_mode, outcome, built) ==
    [root_node |-> root_node, minimal_mode |-> minimal_mode,
     outcome |-> outcome, built |-> built]

\* `if self.strawberry_types: return`
InitializeTypesReturnsEarly(root_node, minimal_mode) ==
    /\ Len(registry_log) < MaxInitCalls
    /\ type_registry.strawberry_types # EmptyDict
    /\ registry_log' = Append(registry_log,
                              RegistryCall(root_node, minimal_mode, "returned", FALSE))
    /\ UNCHANGED <<compilerVars, enumVars, graphqlVars, type_registry, functionVars>>

\* self.pydantic_models.update({...}) with the maps the call built, then
\* `if not minimal_mode: self._create_strawberry_types(...)`
StoreTypes(root_node, minimal_mode, rf, rm, rt, n) ==
    [pydantic_models |->
         [built_by |-> n,
          filter_models |-> rf.models, mutation_models |-> rm.models,
          full_models |-> rt.models],
     strawberry_types |->
         IF minimal_mode THEN type_registry.strawberry_types
         ELSE ProjectModels("full", rt, rt.keys, root_node, type_registry.strawberry_types),
     strawberry_inputs |->
         IF minimal_mode THEN type_registry.strawberry_inputs
         ELSE ProjectModels("mutation", rm, rm.keys, root_node,
                  ProjectModels("filter", rf, rf.keys, root_node,
                                type_registry.strawberry_inputs))]

\* the rest of initialize_types: get_schema_fields(), the three builders (a
\* ValueError of one of them leaves the registry as it was), the store
InitializeTypesBuilds(root_node, minimal_mode) ==
    /\ Len(registry_log) < MaxInitCalls
    /\ type_registry.strawberry_types = EmptyDict
    /\ \E rf \in {build_filter_models(schema_fields, FALSE, FALSE,
                        [cache |-> ENUM_CLASS_CACHE, next_id |-> next_id, calls |-> calls])} :
       \E rm \in {build_mutation_models(schema_fields, FALSE, TRUE, EnumHeap(rf))} :
       \E rt \in {build_full_models(schema_fields, FALSE, TRUE, EnumHeap(rm))} :
           /\ ENUM_CLASS_CACHE' = rt.cache
           /\ next_id' = rt.next_id
           /\ calls' = rt.calls
           /\ IF "raised" \in {rf.outcome, rm.outcome, rt.outcome}
              THEN /\ type_registry' = type_registry
                   /\ registry_log' = Append(registry_log,
                          RegistryCall(root_node, minimal_mode, "raised", TRUE))
              ELSE /\ type_registry' = StoreTypes(root_node, minimal_mode, rf, rm, rt,
                                                  Len(registry_log) + 1)
                   /\ registry_log' = Append(registry_log,
                          RegistryCall(root_node, minimal_mode, "returned", TRUE))
    /\ UNCHANGED <<compilerVars, threads, graphqlVars, functionVars>>

\* type_registry.initialize_types(root_node, minimal_mode)
InitializeTypes(root_node, minimal_mode) ==
    \/ InitializeTypesReturnsEarly(root_node, minimal_mode)
    \/ InitializeTypesBuilds(root_node, minimal_mode)

NextRegistry ==
    \E root_node \in RootTypes, minimal_mode \in BOOLEAN :
        InitializeTypes(root_node, minimal_mode)

SpecRegistry == InitRegistry /\ [][NextRegistry]_vars

-----------------------------------------------------------------------------
(* What the claims speak of, read off the inputs and the result.           *)

\* the positions of the input fields that participate under attribute_flag
ParticipatingFields ==
    {i \in 1..Len(schema_fields) :
        attribute_flag = None \/ Get(schema_fields[i].attributes, attribute_flag, FALSE)}

\* the segments of the json_path of the i-th input field
PathOf(i) == str_split(schema_fields[i].json_path, ".")

\* the distinct top-level segments of the participating fields
TopSegments == {PathOf(i)[1] : i \in ParticipatingFields}

\* the participating field the compiler keeps for a path: the last one in input order
KeptField(path) ==
    schema_fields[CHOOSE i \in ParticipatingFields :
                      /\ PathOf(i) = path
                      /\ \A j \in ParticipatingFields : PathOf(j) = path => j <= i]

HasField(path) == \E i \in ParticipatingFields : PathOf(i) = path

\* a path with a participating field strictly below it
HasDescendant(path) ==
    \E i \in ParticipatingFields : Len(PathOf(i)) > Len(path) /\ IsPrefix(path, PathOf(i))

\* the compiled records other than the wrapper, by the path each was built for
RecordRefs == DOMAIN classes \ {WrapperRef}

\* the field entries of all compiled records: the path each stands for, and the entry
FieldEntries ==
    UNION {{[path |-> Append(ref, classes[ref].fields[n].name), entry |-> classes[ref].fields[n]] :
                n \in 1..Len(classes[ref].fields)} : ref \in DOMAIN classes}

YesArray(sf) == _is_yes(Get(sf.attributes, "array", <<"N","o">>))

ExtraFieldName == <<"e","x","t","r","a">>

-----------------------------------------------------------------------------

\* C1: build_dynamic_model raises, and returns no mapping, exactly when the
\* participating fields have two or more distinct top-level segments; fields
\* that do not participate never cause the error.
C1_MultipleRootsRaise ==
    pc # "call" =>
        /\ (pc = "raised") <=> (Cardinality(TopSegments) >= 2)
        /\ pc = "raised" => models = EmptyDict /\ classes = EmptyDict

\* C1 witness: the flagged fields of the input span two roots, and the call raised.
C1_Witness ==
    /\ pc = "raised"
    /\ attribute_flag # None
    /\ Cardinality(TopSegments) >= 2

\* C2: with a flag given, every field entry of every compiled record stands
\* for the path of a participating field or of an ancestor of one; with the
\* flag None every input field has its field entry.
C2_OnlyFlaggedFieldsAppear ==
    pc = "returned" =>
        /\ \A f \in FieldEntries : HasField(f.path) \/ HasDescendant(f.path)
        /\ (attribute_flag = None /\ models # EmptyDict) =>
               \A i \in 1..Len(schema_fields) : \E f \in FieldEntries : f.path = PathOf(i)

\* C2 witness: a compile under a flag where one input field is left out and
\* an unflagged ancestor appears as a branch of a flagged field.
C2_Witness ==
    /\ pc = "returned"
    /\ attribute_flag # None
    /\ \E i \in 1..Len(schema_fields) :
           /\ i \notin ParticipatingFields
           /\ ~HasDescendant(PathOf(i))
           /\ ~HasField(PathOf(i))
    /\ \E f \in FieldEntries : ~HasField(f.path) /\ HasDescendant(f.path)

C4_ExtensibilityPolicy ==
    pc = "returned" =>
        \A ref \in DOMAIN classes :
            LET cls == classes[ref]
                payload == FieldNames(cls) \cup {ExtraFieldName}
            IN  /\ ExtraFieldName \notin FieldNames(cls)
                /\ Construct(cls, payload).ok <=> allow_extra
                /\ allow_extra => Construct(cls, payload).extras = {ExtraFieldName}
                /\ \A other \in DOMAIN classes : classes[other].extra = cls.extra

\* C4 witness: a permissive compile that produced a root, a nested record and the wrapper.
C4_Witness ==
    /\ pc = "returned"
    /\ allow_extra
    /\ Cardinality(DOMAIN classes) >= 3

\* the scalar type X of a leaf field: its enum, or its dataType through DATATYPE_MAP
ScalarOf(sf) ==
    IF "enum" \in DOMAIN sf.attributes THEN "enum"
    ELSE Get(DATATYPE_MAP, Get(sf.attributes, "dataType", "xsd:string"), "str")

\* the field entries that stand for a leaf of the tree
LeafEntries == {f \in FieldEntries : f.entry.type.base # "model"}

\* the generic wrappers of a type below the outermost Optional
BelowOptional(t) ==
    IF t.wrappers # <<>> /\ Head(t.wrappers) = "Optional" THEN Tail(t.wrappers) ELSE t.wrappers

\* C5 as stated: an array leaf of scalar type X compiles to list of X, and
\* under all_optional to list of optional X (the elements are the optional part).
C5_ListOfOptionalElements ==
    pc = "returned" =>
        \A f \in LeafEntries :
            YesArray(KeptField(f.path)) =>
                /\ f.entry.type.base = ScalarOf(KeptField(f.path))
                /\ f.entry.type.wrappers =
                       IF all_optional THEN <<"List", "Optional">> ELSE <<"List">>

\* C5 as amended: an array leaf of scalar type X compiles to list of X, and
\* under all_optional to optional list of X: the field is optional, its
\* elements are not. A leaf that is no array compiles to no list.
C5_OptionalListOfElements ==
    pc = "returned" =>
        \A f \in LeafEntries :
            /\ HasField(f.path)
            /\ f.entry.type.base = ScalarOf(KeptField(f.path))
            /\ f.entry.type.wrappers =
                   (IF all_optional THEN <<"Optional">> ELSE <<>>)
                   \o (IF YesArray(KeptField(f.path)) THEN <<"List">> ELSE <<>>)

\* C5 witness: an array leaf whose scalar type is an enum, compiled under all_optional.
C5_Witness ==
    /\ pc = "returned"
    /\ all_optional
    /\ \E f \in LeafEntries :
           YesArray(KeptField(f.path)) /\ ScalarOf(KeptField(f.path)) = "enum"

\* C6: a nested branch (a path below the root with participating
\* descendants) is a field of its parent's record whose type is list of its
\* nested record when the field the compiler keeps for the branch has a yes
\* array attribute, and the bare nested record when that field has array=No
\* or no participating field anchors the branch.
C6_BranchArrayWrapping ==
    pc = "returned" =>
        \A i \in ParticipatingFields : \A k \in 2..(Len(PathOf(i)) - 1) :
            LET path == SubSeq(PathOf(i), 1, k)
            IN  \E f \in FieldEntries :
                    /\ f.path = path
                    /\ f.entry.type.base = "model"
                    /\ f.entry.type.ref = path
                    /\ path \in RecordRefs
                    /\ BelowOptional(f.entry.type) =
                           IF HasField(path) /\ YesArray(KeptField(path))
                           THEN <<"List">> ELSE <<>>

\* C6 witness: a nested branch anchored by an array field was compiled.
C6_Witness ==
    /\ pc = "returned"
    /\ \E f \in FieldEntries :
           /\ Len(f.path) >= 2
           /\ f.entry.type.base = "model"
           /\ HasField(f.path)
           /\ YesArray(KeptField(f.path))
           /\ "List" \in {f.entry.type.wrappers[n] : n \in 1..Len(f.entry.type.wrappers)}

\* the wrapper entry of the returned mapping, for the root segment `root`
WrapperEntryFor(root) ==
    LET wkey == root \o WrapperMarker
    IN  /\ wkey \in DOMAIN models
        /\ models[wkey] = WrapperRef
        /\ {k \in DOMAIN models : models[k] = WrapperRef} = {wkey}
        /\ root \in DOMAIN models
        /\ models[root] = <<root>>
        /\ wkey # root
        /\ WrapperRef \in DOMAIN classes
        /\ Len(classes[WrapperRef].fields) = 1
        /\ classes[WrapperRef].fields[1].name = root
        /\ classes[WrapperRef].fields[1].type = ListOf(ModelType(<<root>>))

\* C7 as stated: for any field list with a participating field the returned
\* mapping has exactly one wrapper entry, keyed "<root>_wrapper", whose
\* single field is list of the root record.
C7_WrapperForAnyParticipant ==
    (pc = "returned" /\ ParticipatingFields # {}) =>
        \A root \in TopSegments : WrapperEntryFor(root)

\* C7 as amended: the same, for any field list with a participating field
\* below the root (a json_path of two or more segments); when the only
\* participating paths are the root itself the mapping returned is empty.
C7_WrapperForParticipantBelowRoot ==
    pc = "returned" =>
        /\ (\E i \in ParticipatingFields : Len(PathOf(i)) >= 2) =>
               \A root \in TopSegments : WrapperEntryFor(root)
        /\ (\A i \in ParticipatingFields : Len(PathOf(i)) < 2) => models = EmptyDict

\* C7 witness: a root declared array=No, with a field below it, was wrapped in a list.
C7_Witness ==
    /\ pc = "returned"
    /\ \E root \in TopSegments :
           /\ HasField(<<root>>)
           /\ ~YesArray(KeptField(<<root>>))
           /\ HasDescendant(<<root>>)
           /\ WrapperEntryFor(root)

\* the identity key of the branch at `path`: uniqueName, else the
\* root-stripped dotted path, else the type name
IdentityKey(path) ==
    LET given == IF HasField(path)
                 THEN Get(KeptField(path).attributes, "uniqueName", <<>>)
                 ELSE <<>>
        dotted == str_join(<<".">>, Tail(path))
    IN  IF given # <<>> THEN given
        ELSE IF dotted # <<>> THEN dotted
        ELSE classes[path].name

\* C8 as stated: the returned mapping holds the record of every branch node
\* under that node's identity key; no branch record is overwritten or lost.
C8_EveryBranchUnderItsKey ==
    pc = "returned" =>
        \A path \in RecordRefs :
            /\ IdentityKey(path) \in DOMAIN models
            /\ models[IdentityKey(path)] = path

\* C9 as stated: distinct records of one invocation (root, wrapper, nested
\* records at distinct paths) have distinct type names.
C9_DistinctTypeNames ==
    pc = "returned" =>
        \A r1, r2 \in DOMAIN classes : r1 # r2 => classes[r1].name # classes[r2].name

\* two lists hold the same values as often
IsPermutation(a, b) ==
    /\ Len(a) = Len(b)
    /\ \A v \in {a[n] : n \in 1..Len(a)} \cup {b[n] : n \in 1..Len(b)} :
           Cardinality({n \in 1..Len(a) : a[n] = v}) = Cardinality({n \in 1..Len(b) : b[n] = v})

\* C10: two make_enum calls under one name with value lists that are
\* permutations of each other return the identical object, whatever calls
\* come between, and the object a call returned stays in the cache.
C10_EnumIdentityStable ==
    \A i, j \in 1..Len(calls) :
        /\ (calls[i].name = calls[j].name /\ IsPermutation(calls[i].values, calls[j].values))
               => calls[i].id = calls[j].id
        /\ \E k \in DOMAIN ENUM_CLASS_CACHE : ENUM_CLASS_CACHE[k].id = calls[i].id

\* C10 witness: a call, another call under a different key, then the first
\* call's values permuted: the third call returned the first one's object.
C10_Witness ==
    /\ Len(calls) >= 3
    /\ calls[1].name = calls[3].name
    /\ calls[1].values # calls[3].values
    /\ IsPermutation(calls[1].values, calls[3].values)
    /\ calls[2].id # calls[1].id
    /\ calls[1].id = calls[3].id

-----------------------------------------------------------------------------

\* the values of a list, as a set
ValueSet(values) == {values[n] : n \in 1..Len(values)}

\* the enum object with the given identity, as the cache holds it
EnumObject(id) == ENUM_CLASS_CACHE[CHOOSE k \in DOMAIN ENUM_CLASS_CACHE : ENUM_CLASS_CACHE[k].id = id]

\* C11: two make_enum calls under one name whose value sets differ return
\* distinct objects, and the members of the object a call returns are exactly
\* the values passed in that call.
C11_DistinctTypePerValueSet ==
    \A i, j \in 1..Len(calls) :
        /\ (calls[i].name = calls[j].name /\ ValueSet(calls[i].values) # ValueSet(calls[j].values))
               => calls[i].id # calls[j].id
        /\ {m.value : m \in ValueSet(EnumObject(calls[i].id).members)} = ValueSet(calls[i].values)

\* C12: under any interleaving of the threads inside make_enum, every caller
\* holds the object the cache holds for its key: callers with an equal key
\* hold the identical object, and an entry once written is never replaced.
C12_ConcurrentCallersShareObject ==
    \A i \in 1..Len(calls) :
        /\ CacheKey(calls[i].name, calls[i].values) \in DOMAIN ENUM_CLASS_CACHE
        /\ ENUM_CLASS_CACHE[CacheKey(calls[i].name, calls[i].values)].id = calls[i].id

-----------------------------------------------------------------------------

\* the compiled root record of a policy: the class built for the path of
\* the root segment alone
RootRecordRef(policy) == CHOOSE ref \in DOMAIN schema.classes[policy] : Len(ref) = 1

\* a backend record that the full root record accepts
Constructs(record) == Construct(schema.classes["full"][RootRecordRef("full")], record).ok

\* an invocation has finished and no other has begun
Finished == request.at = "idle" /\ last.outcome # "none"

\* C13: a list invocation whose Backend.query returned n >= 1 records (each
\* one the full root record accepts) returns n typed objects in the same
\* order, the i-th built from the i-th record by the full root record; this
\* holds for the root name as configured.
C13_ListReturnsTypedObjects ==
    (/\ Finished
     /\ last.op = "persons"
     /\ last.outcome \notin {"validation_error", "backend_error"}
     /\ last.records # <<>>
     /\ \A n \in 1..Len(last.records) : Constructs(last.records[n]))
    => /\ last.outcome = "returned"
       /\ Len(last.result) = Len(last.records)
       /\ \A n \in 1..Len(last.records) :
              /\ last.result[n].model = RootRecordRef("full")
              /\ last.result[n].data =
                     Construct(schema.classes["full"][RootRecordRef("full")], last.records[n])

\* C14: the schema build_schema returns has a read group and a write group,
\* and the write group has an update operation.
C14_ReadAndWriteGroups ==
    schema.outcome = "returned" =>
        /\ schema.query = {"persons", "person"}
        /\ "update" \in schema.mutation

\* a caller's filter meets the constraints of the compiled root filter
\* record: no value of the wrong type or outside its enum, no field left
\* out that is required, no field given that the record does not have
MeetsFilterConstraints(payload) ==
    /\ payload.bad = {}
    /\ Construct(schema.classes["filter"][RootRecordRef("filter")], payload.given).ok

\* the filter of the invocation the Backend calls on record belong to
LatestFilter == IF request.at = "awaiting" THEN request.filter ELSE last.filter

\* C15: an invocation whose filter fails the constraints of the compiled
\* record ends in a validation error with no Backend call made, and a
\* Backend call is only ever made for a filter that met them.
C15_ValidationBeforeBackend ==
    /\ (Finished /\ ~MeetsFilterConstraints(last.filter))
           => (last.outcome = "validation_error" /\ backend_calls = <<>>)
    /\ (Finished /\ last.outcome = "validation_error") => backend_calls = <<>>
    /\ backend_calls # <<>> => MeetsFilterConstraints(LatestFilter)

\* C15 witness: an invocation given a value of the wrong type has ended in a
\* validation error, and no Backend call is on record for it.
C15_Witness ==
    /\ Finished
    /\ last.outcome = "validation_error"
    /\ last.filter.bad # {}
    /\ backend_calls = <<>>

\* C16: an invocation that passed input validation makes exactly one Backend
\* call, also when that call raises (no retry); the single operation then
\* returns the first record, or the empty result when the Backend returned
\* none.
C16_OneBackendCallPerInvocation ==
    /\ request.at = "awaiting" => Len(backend_calls) = 1
    /\ (Finished /\ last.outcome # "validation_error")
           => (Len(backend_calls) = 1 /\ last.backend_calls = 1)
    /\ (Finished /\ last.op = "person" /\ last.outcome \notin {"validation_error", "backend_error"})
           => IF last.records = <<>>
              THEN last.outcome = "returned" /\ last.result = <<>>
              ELSE Constructs(last.records[1])
                       => /\ last.outcome = "returned"
                          /\ Len(last.result) = 1
                          /\ last.result[1].data =
                                 Construct(schema.classes["full"][RootRecordRef("full")],
                                           last.records[1])

\* C17: every name under which the filter projection registers the root
\* filter record is "<Root>FilterInput", whatever key of the compiler's map
\* the record was found under.
C17_RootFilterInputName ==
    schema.outcome = "returned" =>
        \A n \in DOMAIN schema.strawberry_inputs :
            (/\ schema.strawberry_inputs[n].policy = "filter"
             /\ schema.strawberry_inputs[n].model = RootRecordRef("filter"))
            => n = to_pascal_case_from_str(root_type) \o FilterSuffix \o InputSuffix

\* the map a policy's compile returned to build_schema, with its keys in
\* iteration order
PolicyMap(policy) == schema.maps[policy]

\* the registry a policy's loop writes to
RegistryOf(policy) ==
    IF policy = "full" THEN schema.strawberry_types ELSE schema.strawberry_inputs

\* the positions, in a policy's map, of the keys a loop projects to name n
ProjectedAt(policy, n) ==
    {i \in 1..Len(PolicyMap(policy).keys) :
        /\ ~IsWrapperKey(PolicyMap(policy).keys[i])
        /\ ProjectedName(policy, PolicyMap(policy).keys[i], root_type) = n}

\* the least of a non-empty set of positions
Least(S) == CHOOSE i \in S : \A j \in S : i <= j

\* C18: in each projection loop the registry holds, under each projected
\* name, the type built from the first record in map order that maps to
\* that name; records that map to a name already taken are passed over and
\* the build goes on without an error.
C18_FirstSeenWins ==
    schema.outcome = "returned" =>
        \A policy \in {"full", "filter", "mutation"} :
            /\ \A i \in 1..Len(PolicyMap(policy).keys) :
                   ~IsWrapperKey(PolicyMap(policy).keys[i]) =>
                       ProjectedName(policy, PolicyMap(policy).keys[i], root_type)
                           \in DOMAIN RegistryOf(policy)
            /\ \A n \in DOMAIN RegistryOf(policy) :
                   RegistryOf(policy)[n].policy = policy =>
                       /\ RegistryOf(policy)[n].key =
                              PolicyMap(policy).keys[Least(ProjectedAt(policy, n))]
                       /\ RegistryOf(policy)[n].model =
                              PolicyMap(policy).models[RegistryOf(policy)[n].key]

\* C18 witness: in the output loop two different compiled records map to one
\* projected name, the schema was built, and the registry holds the record
\* that comes first in the map.
C18_Witness ==
    /\ schema.outcome = "returned"
    /\ \E n \in DOMAIN schema.strawberry_types :
           \E i, j \in ProjectedAt("full", n) :
               /\ i < j
               /\ PolicyMap("full").models[PolicyMap("full").keys[i]]
                      # PolicyMap("full").models[PolicyMap("full").keys[j]]
               /\ schema.strawberry_types[n].model
                      = PolicyMap("full").models[PolicyMap("full").keys[i]]

\* the names under which a policy's registry holds the compiled record
\* `model`
NamesOf(policy, model) ==
    {n \in DOMAIN RegistryOf(policy) :
        /\ RegistryOf(policy)[n].policy = policy
        /\ RegistryOf(policy)[n].model = model}

\* C19: in a built schema each distinct compiled record of a policy is
\* projected exactly once: no compiled record, the root record included, is
\* registered under two different API type names, and every record stored
\* under a key without the wrapper marker is in the registry.
C19_EachRecordProjectedOnce ==
    schema.outcome = "returned" =>
        \A policy \in {"full", "filter", "mutation"} :
            \A i \in 1..Len(PolicyMap(policy).keys) :
                ~IsWrapperKey(PolicyMap(policy).keys[i]) =>
                    Cardinality(NamesOf(policy,
                        PolicyMap(policy).models[PolicyMap(policy).keys[i]])) = 1

\* whether some field of the list given to build_schema carries the flag
Tagged(flag) ==
    \E i \in 1..Len(schema_fields) : Get(schema_fields[i].attributes, flag, FALSE) = TRUE

\* whether a registry holds, under `name`, a type projected by `policy`
Located(registry, name, policy) ==
    name \in DOMAIN registry /\ registry[name].policy = policy

\* C20: build_schema fails at schema-build time, and returns no schema,
\* whenever one of the three root types cannot be located in the projected
\* registries: a schema that was returned has its read type, its root filter
\* input and its root mutation input in the registries, under the names
\* derived from the configured root; a list with no field tagged xQueryable,
\* or with no field tagged xMutable, never gives a schema; and a failed
\* build leaves no registry and no operation behind.
C20_MissingRootFailsBuild ==
    /\ schema.outcome = "returned" =>
           /\ schema.RootType = to_pascal_case_from_str(root_type)
           /\ Located(schema.strawberry_types, schema.RootType, "full")
           /\ Located(schema.strawberry_inputs, schema.FilterInput, "filter")
           /\ Located(schema.strawberry_inputs, schema.MutationInput, "mutation")
    /\ (pc # "call" /\ (~Tagged("xQueryable") \/ ~Tagged("xMutable"))) =>
           schema.outcome = "raised"
    /\ schema.outcome = "raised" =>
           /\ pc = "raised"
           /\ schema.strawberry_types = EmptyDict
           /\ schema.strawberry_inputs = EmptyDict
           /\ schema.query = {}
           /\ request = NoRequest
           /\ backend_calls = <<>>

\* C20 witness: every field is under the one root the configuration names
\* and is tagged xQueryable, none is tagged xMutable, so the read type and
\* the root filter input exist but the root mutation input does not, and
\* build_schema has raised.
C20_Witness ==
    /\ pc = "raised"
    /\ schema.outcome = "raised"
    /\ Len(schema_fields) >= 1
    /\ \A i \in 1..Len(schema_fields) :
           /\ Head(schema_fields[i].json_path) = Head(str_lower(root_type))
           /\ Get(schema_fields[i].attributes, "xQueryable", FALSE) = TRUE
    /\ ~Tagged("xMutable")

\* the participating fields that are branches (attributes.branch true) with
\* no participating field below them
EmptyBranches ==
    {i \in ParticipatingFields :
        /\ Get(schema_fields[i].attributes, "branch", FALSE) = TRUE
        /\ ~HasDescendant(PathOf(i))}

\* C24: a record with zero resolved fields is dropped and its slot on the
\* parent omitted: for every participating field that is a branch and has no
\* participating descendant, no compiled record has a field for its path and
\* the returned mapping has no record for it.
C24_EmptyBranchOmitted ==
    pc = "returned" =>
        \A i \in EmptyBranches :
            /\ \A e \in FieldEntries : e.path # PathOf(i)
            /\ PathOf(i) \notin RecordRefs

\* the root record is in the returned mapping under the root segment key
RootUnderItsSegment ==
    /\ pc = "returned"
    /\ models # EmptyDict
    /\ \A root \in TopSegments :
           /\ root \in DOMAIN models
           /\ models[root] = <<root>>
           /\ <<root>> \in DOMAIN classes

\* a field participates below the root: its json_path has two or more segments
ParticipantBelowRoot == \E i \in ParticipatingFields : Len(PathOf(i)) >= 2

\* C25 as stated: build_dynamic_model returns the empty mapping, without
\* raising, exactly when no input field participates; whenever a field
\* participates and the root is unique the returned mapping is non-empty and
\* holds the root record under the root segment key.
C25_EmptyExactlyWithoutParticipants ==
    pc # "call" =>
        /\ ParticipatingFields = {} => (pc = "returned" /\ models = EmptyDict)
        /\ (pc = "returned" /\ models = EmptyDict) => ParticipatingFields = {}
        /\ (ParticipatingFields # {} /\ Cardinality(TopSegments) = 1) => RootUnderItsSegment

\* C25 as amended: the empty mapping is returned, without raising, when no
\* input field participates, and also when the only participating paths are
\* the one root itself; whenever a field participates below a unique root
\* the returned mapping is non-empty and holds the root record under the
\* root segment key.
C25_EmptyWithoutParticipantBelowRoot ==
    pc # "call" =>
        /\ ParticipatingFields = {} => (pc = "returned" /\ models = EmptyDict)
        /\ pc = "returned" => (models = EmptyDict <=> ~ParticipantBelowRoot)
        /\ (ParticipantBelowRoot /\ Cardinality(TopSegments) = 1) => RootUnderItsSegment

\* C25 witness: under attribute_flag xQueryable a non-empty list none of
\* whose fields carries the flag gave the empty mapping, without raising.
C25_Witness ==
    /\ pc = "returned"
    /\ attribute_flag = "xQueryable"
    /\ Len(schema_fields) >= 1
    /\ ParticipatingFields = {}
    /\ models = EmptyDict

\* the name generated for a compiled class before the suffix: the
\* capitalized root segment for the wrapper, the PascalCase of the
\* root-stripped path (or of the root) for a record
GeneratedName(ref) ==
    IF ref = WrapperRef THEN str_capitalize(CHOOSE root \in TopSegments : TRUE)
    ELSE IF Tail(ref) # <<>> THEN to_pascal_case(str_join(<<>>, Tail(ref)))
    ELSE to_pascal_case(Head(ref))

\* the suffix appended only when the name does not already end with it
SuffixedOnce(name, suffix) ==
    IF str_endswith(name, suffix) THEN name ELSE name \o suffix

\* C26: with a non-empty model_suffix the name of every type of the returned
\* mapping (root record, nested records and the wrapper) ends with the
\* suffix, and the suffix is appended only when the generated name does not
\* already end with it, so it is never doubled.
C26_SuffixOnceOnEveryType ==
    (pc = "returned" /\ model_suffix # <<>>) =>
        \A ref \in DOMAIN classes :
            /\ str_endswith(classes[ref].name, model_suffix)
            /\ classes[ref].name = SuffixedOnce(GeneratedName(ref), model_suffix)

\* the permutations of 1..n
IndexPermutations(n) ==
    {f \in [1..n -> 1..n] : \A i, j \in 1..n : f[i] = f[j] => i = j}

\* the input list in the order f
Permuted(f) == [i \in 1..Len(schema_fields) |-> schema_fields[f[i]]]

\* the fields of a compiled class, whatever their order: name, type (with
\* its list wrappers) and description
FieldSet(cls) ==
    {[name |-> cls.fields[n].name, type |-> cls.fields[n].type,
      description |-> cls.fields[n].description] : n \in 1..Len(cls.fields)}

\* the result r has the outcome, the keys and, per key, the fields of the
\* result of the invocation
SameResult(r) ==
    /\ r.outcome = pc
    /\ DOMAIN r.models = DOMAIN models
    /\ \A k \in DOMAIN models :
           FieldSet(r.classes[r.models[k]]) = FieldSet(classes[models[k]])

\* C29: build_dynamic_model is insensitive to the order of its input: for
\* every field list and every permutation of it the two results have the
\* same keys and, per key, the same field names, types, array-ness and
\* descriptions, also when two input fields share a json_path.
C29_OrderInsensitive ==
    pc # "call" =>
        \A f \in IndexPermutations(Len(schema_fields)) :
            SameResult(build_dynamic_model(Permuted(f), attribute_flag, allow_extra,
                                           model_suffix, all_optional,
                                           [cache |-> EmptyDict, next_id |-> 1,
                                            calls |-> <<>>]))

\* C22: an operation root is bound at build time to one compiled-type triple
\* and is immutable afterward: whatever build_schema calls follow the first,
\* every object an operation of the first schema returns is of the read
\* type the first build produced.
C22_RootBoundAtBuildTime ==
    (Finished /\ last.outcome = "returned") =>
        \A n \in 1..Len(last.result) :
            last.result[n].type = [build |-> 1, name |-> schema.RootType]

\* the initialize_types calls that completed
CompletedCalls == {n \in 1..Len(registry_log) : registry_log[n].outcome = "returned"}

\* C23: initialize_types builds the models at most once: after one call has
\* completed on the singleton, a later call (minimal_mode true or false,
\* same or different root) invokes neither the schema source nor a model
\* builder, and the registry still holds what the first completed call
\* stored.
C23_ModelsBuiltAtMostOnce ==
    \A m \in CompletedCalls :
        /\ \A n \in 1..Len(registry_log) : n > m => ~registry_log[n].built
        /\ (\A k \in CompletedCalls : m <= k) =>
               /\ type_registry.pydantic_models # EmptyDict
               /\ type_registry.pydantic_models.built_by = m

\* the chains of field names reachable from a selection set through nested
\* selection sets of fields and through fragment spreads, a spread standing
\* for the selection set of its fragment
RECURSIVE FieldChains(_, _)
FieldChains(selections, fragments) ==
    UNION {IF selections[k].kind = "field"
           THEN {<<selections[k].name>>}
                    \cup {<<selections[k].name>> \o c :
                              c \in FieldChains(selections[k].selection_set, fragments)}
           ELSE IF selections[k].kind = "fragment_spread"
           THEN FieldChains(fragments[selections[k].name].selection_set, fragments)
           ELSE {} : k \in 1..Len(selections)}

\* the prefix as a list of names
PrefixNames ==
    IF args.prefix.kind = "list" THEN args.prefix.value
    ELSE IF args.prefix.kind = "str" THEN <<args.prefix.value>> ELSE <<>>

\* the tree {a: {b: {}}, c: {}} under one node, with empty prefix
ExampleTree ==
    <<FieldSelection(<<"q">>,
          <<FieldSelection(<<"a">>, <<FieldSelection(<<"b">>, <<>>)>>),
            FieldSelection(<<"c">>, <<>>)>>)>>

-----------------------------------------------------------------------------
(* extract_nodes: the order and the paths of the records.                  *)

\* the path of a property child as stated: parent-path + "." + camelCase(key)
ChildPathStated(parent, key) == parent \o <<".">> \o to_camel_case(key)

\* the same below a named parent; directly below the document root (the
\* empty path) the child's path is camelCase(key) alone
ChildPathBelowRoot(parent, key) ==
    IF parent = <<>> THEN to_camel_case(key) ELSE ChildPathStated(parent, key)

RECURSIVE RecordPaths(_, _, _)
RECURSIVE PropertyPaths(_, _, _)
RECURSIVE ItemPaths(_, _, _)

PropertyPaths(entries, parent, stated) ==
    IF entries = <<>> THEN <<>>
    ELSE RecordPaths(Head(entries).value,
                     IF stated THEN ChildPathStated(parent, Head(entries).key)
                     ELSE ChildPathBelowRoot(parent, Head(entries).key),
                     stated)
         \o PropertyPaths(Tail(entries), parent, stated)

ItemPaths(elems, path, stated) ==
    IF elems = <<>> THEN <<>>
    ELSE RecordPaths(Head(elems), path, stated) \o ItemPaths(Tail(elems), path, stated)

\* the json_paths the records are to carry, in order: nothing for a
\* non-dict; the node's own path first, then the records of each property
\* under the child's path, then the records of the items under the node's
\* own path
RecordPaths(node, path, stated) ==
    IF node.kind # "dict" THEN <<>>
    ELSE <<path>>
         \o (IF node.properties.kind = "dict"
             THEN PropertyPaths(node.properties.entries, path, stated) ELSE <<>>)
         \o (IF node.items.kind = "dict" THEN RecordPaths(node.items, path, stated)
             ELSE IF node.items.kind = "list" THEN ItemPaths(node.items.elems, path, stated)
             ELSE <<>>)

ReturnedPaths == [n \in 1..Len(returned.value) |-> returned.value[n].json_path]

ExtractReturned == args.fn = "extract_nodes" /\ returned.done

\* the first record is the node's own: its path, its description, its type
OwnRecordFirst ==
    args.obj.kind = "dict" =>
        /\ returned.value # <<>>
        /\ returned.value[1].json_path = camelcase_path(args.path_prefix)
        /\ returned.value[1].description = get_description(args.obj)
        /\ returned.value[1].attributes["type"] = Get(args.obj.keys, "type", None)

\* C27 (as stated): extract_nodes returns an empty list for a non-dict node;
\* for a dict the node's own record comes first and before every
\* descendant's, each property child has the path parent-path + "." +
\* camelCase(key), and the records from `items` carry the array node's path.
C27_PathsAsStated ==
    ExtractReturned =>
        /\ args.obj.kind # "dict" => returned.value = <<>>
        /\ OwnRecordFirst
        /\ ReturnedPaths = RecordPaths(args.obj, camelcase_path(args.path_prefix), TRUE)

\* C27 (amended): the same, with the path of a property child directly below
\* the document root (empty path) being camelCase(key) alone, and
\* parent-path + "." + camelCase(key) below any other node.
C27_PathsBelowRoot ==
    ExtractReturned =>
        /\ args.obj.kind # "dict" => returned.value = <<>>
        /\ OwnRecordFirst
        /\ ReturnedPaths = RecordPaths(args.obj, camelcase_path(args.path_prefix), FALSE)

\* an object at the document root with a scalar property and an array
\* property whose items are a list of schemas has been extracted
C27_Witness ==
    /\ ExtractReturned
    /\ args.path_prefix = <<>>
    /\ args.obj.kind = "dict"
    /\ args.obj.properties.kind = "dict"
    /\ Len(args.obj.properties.entries) = 2
    /\ args.obj.properties.entries[2].value.kind = "dict"
    /\ args.obj.properties.entries[2].value.items.kind = "list"
    /\ Len(returned.value) = 6
    /\ returned.value[2].json_path = <<"a">>
    /\ returned.value[3].json_path = <<"b","C">>
    /\ returned.value[5].json_path = <<"b","C">>
    /\ returned.value[6].json_path = <<"b","C",".","b">>

-----------------------------------------------------------------------------
(* The extractor's output compiled.                                        *)

\* `type: array` with an `items` object that has properties
IsArrayOfObjects(node) ==
    /\ node.kind = "dict"
    /\ Get(node.keys, "type", None) = "array"
    /\ node.items.kind = "dict"
    /\ node.items.properties.kind = "dict"
    /\ node.items.properties.entries # <<>>

\* the properties of the extracted schema that are arrays of objects
ArrayProperties ==
    IF args.obj.kind = "dict" /\ args.obj.properties.kind = "dict"
    THEN {n \in 1..Len(args.obj.properties.entries) :
             IsArrayOfObjects(args.obj.properties.entries[n].value)}
    ELSE {}

\* the path, in segments, of the n-th property of the extracted schema
PropertyPath(n) ==
    <<to_camel_case(args.path_prefix), to_camel_case(args.obj.properties.entries[n].key)>>

\* C30: the extractor's output compiled, an array-of-objects property
\* (`type: array`, `items` an object with properties) is a field of type
\* list-of-nested-record on its parent: every field compiled for such a
\* property is a list of the nested record.
C30_ArrayMarkerKept ==
    (ExtractReturned /\ pc = "returned") =>
        \A n \in ArrayProperties :
            \A e \in FieldEntries :
                e.path = PropertyPath(n) =>
                    /\ e.entry.type.base = "model"
                    /\ \E w \in 1..Len(e.entry.type.wrappers) :
                           e.entry.type.wrappers[w] = "List"

-----------------------------------------------------------------------------
(* pydantic_inputs_to_dict: the results are plain JSON values.             *)

\* None, str, int, and lists and str-keyed dicts of these at every depth:
\* no date, datetime, Enum member, model, dataclass instance or tuple
RECURSIVE IsJsonSafe(_)
IsJsonSafe(v) ==
    \/ v.kind \in {"none", "str", "int"}
    \/ v.kind = "list" /\ \A n \in 1..Len(v.elems) : IsJsonSafe(v.elems[n])
    \/ /\ v.kind = "dict"
       /\ \A n \in 1..Len(v.entries) :
              v.entries[n].key.kind = "str" /\ IsJsonSafe(v.entries[n].value)

SerializeReturned == args.fn = "pydantic_inputs_to_dict" /\ returned.done

\* the two inputs, in the order of the two results
GivenInputs == <<args.filter_input, args.mutation_input>>

\* the model an input stands for: of a Strawberry input its to_pydantic()
GivenModel(obj) == IF obj.kind = "input" THEN obj.model ELSE obj

\* the entries of a result dict under a field name
EntriesUnder(result, name) ==
    {n \in 1..Len(result.entries) : result.entries[n].key = PyStr(name)}

\* a field of a given model is in the result as: nothing for None, the ISO
\* string for a date or datetime, the member's value for an Enum member
FieldConverted(field, result) ==
    /\ field.value = PyNone => EntriesUnder(result, field.key) = {}
    /\ field.value.kind \in {"date", "datetime"} =>
           \E n \in EntriesUnder(result, field.key) :
               result.entries[n].value = PyStr(_iso(field.value))
    /\ field.value.kind = "enum" =>
           \E n \in EntriesUnder(result, field.key) :
               result.entries[n].value = field.value.value

\* C28: pydantic_inputs_to_dict maps None to None and any other input to a
\* plain JSON-safe structure: no date, datetime, Enum member or model at any
\* depth of its dicts and lists, dates and datetimes as ISO-8601 strings and
\* Enum members as their values; serialize_for_json applied to the result
\* returns an equal value.
C28_JsonSafeAndIdempotent ==
    SerializeReturned =>
        /\ \A i \in 1..2 :
               /\ GivenInputs[i] = PyNone => returned.value[i] = PyNone
               /\ IsJsonSafe(returned.value[i])
               /\ (~returned.again /\ GivenModel(GivenInputs[i]).kind = "model") =>
                      /\ returned.value[i].kind = "dict"
                      /\ \A n \in 1..Len(GivenModel(GivenInputs[i]).fields) :
                             FieldConverted(GivenModel(GivenInputs[i]).fields[n],
                                            returned.value[i])
        /\ returned.again => returned.value = returned.first

\* a Strawberry filter input with a date before the year 1000 and a list of
\* an Enum member and a date, and a mutation input with a datetime, have
\* been converted and the results serialized again
C28_Witness ==
    /\ SerializeReturned
    /\ returned.again
    /\ args.filter_input =
           StrawberryInput(PyModel(<<Entry(<<"f">>, PyDate(987, 12, 31)),
                                     Entry(<<"g">>, PyList(<<EnumMember("A", PyStr(<<"a">>)),
                                                             PyDate(987, 12, 31)>>))>>))
    /\ args.mutation_input.kind = "input"
    /\ returned.first[1] =
           PyDict(<<Entry(PyStr(<<"f">>), PyStr(<<"0","9","8","7","-","1","2","-","3","1">>)),
                    Entry(PyStr(<<"g">>),
                          PyList(<<PyStr(<<"a">>),
                                   PyStr(<<"0","9","8","7","-","1","2","-","3","1">>)>>))>>)
    /\ returned.first[2] =
           PyDict(<<Entry(PyStr(<<"f">>),
                          PyStr(<<"2","0","2","4","-","1","2","-","3","1","T",
                                  "2","3",":","5","9",":","0","0">>))>>)

====
